---------------------------- MODULE Spec2Model ----------------------------
(***************************************************************************)
(* A model of the Pomodoro timer subsystem of lumina-frontend:             *)
(*   - the ticking engine            hooks/timer/useTimerCore.ts           *)
(*   - the settings cache            hooks/timer/useTimerSettings.ts       *)
(*   - the session lifecycle manager hooks/timer/useTimerSession.ts        *)
(*   - the coordinating hook         hooks/timer/usePomodoroTimer.ts       *)
(*   - the legacy hook               hooks/usePomodoroTimer.ts             *)
(* Time is Date.now() in milliseconds.  A React ref is a variable; a ref   *)
(* holding null or 0 (both falsy, and tested only by truthiness in the     *)
(* code) is 0.                                                             *)
(***************************************************************************)
EXTENDS Integers, Sequences, FiniteSets, TLC

(***************************************************************************)
(* Bounds of the model.                                                    *)
(***************************************************************************)
\* Milliseconds the clock advances per granule.
Granule == 500
\* The largest number of granules the clock advances in one step.
MaxJump == 3
\* Milliseconds of clock the engine model explores from T0 on.
MaxElapsed == 4000
\* The largest duration (seconds) passed to startTimer in the engine model.
MaxDuration == 2
\* Settings requests issued in the settings model.
MaxRequests == 2
\* Clock steps taken in the settings model.
MaxClockSteps == 2
\* The largest sessions_until_long_break in the session-type model.
MaxCycle == 3
\* The largest sequence number a session reaches in the session-type model.
MaxSessionNumber == 6
\* Sessions the backend creates in the coordinator model.
MaxSessions == 2
\* Control actions the user takes in the coordinator model.
MaxCalls == 3
\* Clock steps taken in the coordinator model.
MaxTimerClock == 2
\* Control actions and page returns in the legacy hook's model.
MaxLegacyCalls == 2
\* Clock steps taken in the legacy hook's model.
MaxLegacyClock == 2
\* The largest remaining_minutes the backend reports for an active session.
MaxRemainingMinutes == 1
\* Remote calls made through ApiService.request in the API model.
MaxApiRequests == 2
\* The largest max prop of a DurationInput in the input model.
MaxInputMax == 4
\* Typed numbers are multiples of 1 / InputScale.
InputScale == 2

(***************************************************************************)
(* Program constants.                                                      *)
(***************************************************************************)
\* useTimerCore: intervalMs = 1000 (the default).
intervalMs == 1000
\* useTimerCore.updateTimer: (now - start - paused) / 1000.
MsPerSecond == 1000

\* Date.now() when the page is constructed: any positive instant.
T0 == 1

\* The value of a ref or state that holds null.
Null == 0
\* PomodoroSettingsModal: min of the three duration inputs, and of
\* sessions_until_long_break.
MinDuration == 1
MinSessions == 2
\* "No value yet" for the history variables that record callback arguments.
None == 0 - 1

Max(a, b) == IF a >= b THEN a ELSE b
Abs(a) == IF a >= 0 THEN a ELSE 0 - a

VARIABLES
  \* ---- the host
  now,                \* Date.now()
  \* ---- useTimerCore refs
  animationFrame,     \* a requestAnimationFrame callback is scheduled
  startTimeRef,
  pausedTimeRef,
  durationRef,
  isRunningRef,
  isPausedRef,
  lastTickTimeRef,
  timeRemainingRef,
  \* ---- history of the engine's calls and callbacks
  op,                 \* the operation invoked last
  noop,               \* that invocation took the early return
  lastTick,           \* argument of the last onTick invocation
  tickedAt,           \* Date.now() of the last onTick invocation
  ticksStrict,        \* every onTick argument so far was below the one before
  completeCount,      \* onComplete invocations since the last effective start
  interfered,         \* pause or stop was called since the last effective start
  remAtPause,         \* remaining time at the moment of the last effective pause
  awaitingFirst,      \* resumed, and no frame has run since
  resumedAt,          \* Date.now() of the last effective resume
  firstAfterResume,   \* remaining computed by the first frame after a resume
  sinceResume,        \* milliseconds from that resume to that frame
  \* ---- useTimerSettings: the module-level cache
  settingsCache,
  cacheTimestamp,
  \* ---- useTimerSettings: the hook's state and ref
  settings,
  settingsIsLoading,
  settingsError,
  abortControllerRef, \* the request whose AbortController the ref holds, or Null
  \* ---- the settings requests
  abortedControllers, \* requests whose AbortController has been aborted
  requests,           \* settings requests in flight
  issued,             \* settings requests issued so far (the last one's id)
  clockSteps,         \* clock steps taken in the settings model
  \* ---- history of the settings hook
  sop,                \* the settings operation or settlement that ran last
  sreq,               \* the call or request it concerned
  sresp,              \* the server's record it delivered, if any
  spre,               \* the cache and the visible settings just before it
  \* ---- useTimerSession: the hook's state
  currentSession,
  sessionType,
  sessionNumber,
  totalSessions,
  sessionIsLoading,
  sessionError,
  \* ---- hooks/timer/usePomodoroTimer: the coordinator's state
  timeRemaining,
  localSessionType,   \* the coordinator's own sessionType state
  \* ---- what the last render read from the engine's refs
  viewIsRunning,      \* timerCore.isRunning
  viewIsPaused,       \* timerCore.isPaused
  \* ---- closures and asynchronous calls
  chain,              \* the render whose updateTimer the scheduled frame runs
  calls,              \* handlers suspended at an await on the backend
  callCount,          \* control actions the user has taken
  timerClock,         \* clock steps taken in the coordinator model
  \* ---- the backend
  serverSessions,     \* status of session id i at index i
  \* ---- history of the session hook and the coordinator
  top,                \* the coordinator operation or settlement that ran last
  nextType,           \* inputs and results of the last getNextSessionType call
  prevAtStart,        \* what the session hook held when a session was last requested
  \* ---- hooks/usePomodoroTimer, the legacy hook: state and refs
  timerState,
  legacySettings,     \* its settings state
  legacyIsLoading,    \* its isLoading state
  legacyError,        \* its error state
  timerIntervalRef,   \* the interval's closure, or NoInterval
  intervalLast,       \* Date.now() when the interval was set or last fired
  legacyStartTimeRef, \* its startTimeRef
  legacyPausedTimeRef,\* its pausedTimeRef
  \* ---- the legacy hook's requests, its backend and its history
  legacyCalls,        \* handlers suspended at an await on the backend
  legacyCount,        \* control actions and page events so far
  legacyClock,        \* clock steps taken in the legacy model
  legacyServer,       \* the backend's sessions, session id i at index i
  lop                 \* the legacy operation or settlement that ran last

coreRefs == <<animationFrame, startTimeRef, pausedTimeRef, durationRef,
              isRunningRef, isPausedRef, lastTickTimeRef, timeRemainingRef>>
coreHist == <<op, noop, lastTick, tickedAt, ticksStrict, completeCount,
              interfered, remAtPause, awaitingFirst, resumedAt,
              firstAfterResume, sinceResume>>
coreVars == <<coreRefs, coreHist>>

settingsState == <<settingsCache, cacheTimestamp, settings, settingsIsLoading,
                   settingsError, abortControllerRef>>
settingsVars == <<settingsState, abortedControllers, requests, issued, clockSteps,
                  sop, sreq, sresp, spre>>

sessionState == <<currentSession, sessionType, sessionNumber, totalSessions,
                  sessionIsLoading, sessionError>>
coordState == <<timeRemaining, localSessionType>>
viewState == <<viewIsRunning, viewIsPaused>>
timerVars == <<sessionState, coordState, viewState, chain, calls, callCount,
               timerClock, serverSessions, top, nextType, prevAtStart>>

VARIABLES
  \* ApiService (services/api.ts)
  apiRequests,        \* each request(): where it is, fetches sent, isRetry
  refreshPromise,     \* this.refreshPromise is set
  refreshPc,          \* performTokenRefresh: "idle", "fetch" or "sleep"
  refreshAttempt,     \* performTokenRefresh: attempt
  refreshWake,        \* when the pending sleep(delay) ends
  refreshFailedAt,    \* when the last refresh attempt failed
  userData,           \* localStorage holds 'user'
  aop,                \* the API step that ran last
  \* DurationInput
  inputMin,           \* props.min
  inputMax,           \* props.max
  inputProp,          \* props.value
  inputValue,         \* the text of the input field
  onChangeArg,        \* what the last event passed to onChange (None: no call)
  iop                 \* the event handled last

legacyRefs == <<timerIntervalRef, intervalLast, legacyStartTimeRef,
                legacyPausedTimeRef>>
legacyState == <<timerState, legacySettings, legacyIsLoading, legacyError>>
legacyVars == <<legacyState, legacyRefs, legacyCalls, legacyCount, legacyClock,
                legacyServer, lop>>

apiVars == <<apiRequests, refreshPromise, refreshPc, refreshAttempt, refreshWake,
             refreshFailedAt, userData, aop>>

inputVars == <<inputMin, inputMax, inputProp, inputValue, onChangeArg, iop>>

VARIABLES
  \* ---- what the hooks have done so far
  typeSeq,            \* the session types each hook has held or started, in order
  effects             \* the sounds and notifications the last step dispatched

journalVars == <<typeSeq, effects>>

\* Nothing has happened yet: useTimerSession holds useState('work'), the
\* legacy hook has started no session.
JournalConstructed ==
  /\ typeSeq = [hook |-> <<"work">>, legacy |-> <<>>]
  /\ effects = {}

vars == <<now, coreVars, settingsVars, timerVars, legacyVars, apiVars, inputVars,
          journalVars>>

(***************************************************************************)
(* useTimerCore                                                            *)
(***************************************************************************)
\* elapsed = Math.floor((now - startTimeRef - pausedTimeRef) / 1000)
\* (\div rounds toward minus infinity, as Math.floor does).
Elapsed == (now - startTimeRef - pausedTimeRef) \div MsPerSecond

\* remaining = Math.max(0, durationRef - elapsed)
Remaining == Max(0, durationRef - Elapsed)

\* if (now - lastTickTimeRef.current >= intervalMs) onTick(remaining)
TickDue == now - lastTickTimeRef >= intervalMs

\* The onTick(v) invocation, as the history records it.
RecordTick(v) ==
  /\ lastTick' = v
  /\ tickedAt' = now
  /\ ticksStrict' = (ticksStrict /\ (lastTick = None \/ v < lastTick))

NoTick == UNCHANGED <<lastTick, tickedAt, ticksStrict>>

\* if (remaining === 0) { isRunningRef = false; isPausedRef = false; onComplete(); return }
completesNow_OffByOne == durationRef - Elapsed < 0

completesNow == Remaining = 0

\* updateTimer's guard: if (!isRunningRef.current || !startTimeRef.current) return
updateTimerReturns == ~isRunningRef \/ startTimeRef = Null

\* The scheduled frame runs updateTimer.
CoreUpdateTimer ==
  /\ animationFrame
  /\ op' = "frame"
  /\ IF updateTimerReturns
       THEN /\ animationFrame' = FALSE
            /\ noop' = TRUE
            /\ NoTick
            /\ UNCHANGED <<startTimeRef, pausedTimeRef, durationRef, isRunningRef,
                           isPausedRef, lastTickTimeRef, timeRemainingRef,
                           completeCount, awaitingFirst, firstAfterResume,
                           sinceResume>>
       ELSE /\ noop' = FALSE
            /\ timeRemainingRef' = Remaining
            /\ IF TickDue
                 THEN RecordTick(Remaining) /\ lastTickTimeRef' = now
                 ELSE NoTick /\ UNCHANGED lastTickTimeRef
            /\ IF completesNow
                 THEN /\ isRunningRef' = FALSE
                      /\ isPausedRef' = FALSE
                      /\ completeCount' = completeCount + 1
                      /\ animationFrame' = FALSE
                 ELSE /\ UNCHANGED <<isRunningRef, isPausedRef, completeCount>>
                      /\ animationFrame' = TRUE
            /\ awaitingFirst' = FALSE
            /\ firstAfterResume' = IF awaitingFirst THEN Remaining ELSE firstAfterResume
            /\ sinceResume' = IF awaitingFirst THEN now - resumedAt ELSE sinceResume
            /\ UNCHANGED <<startTimeRef, pausedTimeRef, durationRef>>
  /\ UNCHANGED <<interfered, remAtPause, resumedAt>>

\* The frame above fires onTick / onComplete (read in the state before it).
FrameTicks == animationFrame /\ ~updateTimerReturns /\ TickDue
FrameCompletes == animationFrame /\ ~updateTimerReturns /\ completesNow

\* startTimer's guard: if (isRunningRef.current) return
startTimerReturns_UnlessPaused == isRunningRef /\ ~isPausedRef

startTimerReturns == isRunningRef

CoreStartTimer(durationSeconds) ==
  /\ op' = "start"
  /\ IF startTimerReturns
       THEN /\ noop' = TRUE
            /\ UNCHANGED <<coreRefs, lastTick, tickedAt, ticksStrict, completeCount,
                           interfered, remAtPause, awaitingFirst, resumedAt,
                           firstAfterResume, sinceResume>>
       ELSE /\ noop' = FALSE
            /\ durationRef' = durationSeconds
            /\ startTimeRef' = now
            /\ pausedTimeRef' = 0
            /\ isRunningRef' = TRUE
            /\ isPausedRef' = FALSE
            /\ lastTickTimeRef' = 0
            /\ timeRemainingRef' = durationSeconds
            \* onTick(durationSeconds)
            /\ lastTick' = durationSeconds
            /\ tickedAt' = now
            /\ ticksStrict' = TRUE
            /\ animationFrame' = TRUE
            /\ completeCount' = 0
            /\ interfered' = FALSE
            /\ remAtPause' = None
            /\ awaitingFirst' = FALSE
            /\ resumedAt' = 0
            /\ firstAfterResume' = None
            /\ sinceResume' = 0

\* pauseTimer's guard:
\* if (!isRunningRef.current || isPausedRef.current || !startTimeRef.current) return
pauseTimerReturns == ~isRunningRef \/ isPausedRef \/ startTimeRef = Null

CorePauseTimer ==
  /\ op' = "pause"
  /\ interfered' = TRUE
  /\ IF pauseTimerReturns
       THEN /\ noop' = TRUE
            /\ UNCHANGED <<coreRefs, remAtPause, awaitingFirst, firstAfterResume,
                           sinceResume>>
       ELSE /\ noop' = FALSE
            /\ pausedTimeRef' = pausedTimeRef + (now - startTimeRef)
            /\ isPausedRef' = TRUE
            /\ animationFrame' = FALSE
            /\ remAtPause' = Remaining
            /\ awaitingFirst' = FALSE
            /\ firstAfterResume' = None
            /\ sinceResume' = 0
            /\ UNCHANGED <<startTimeRef, durationRef, isRunningRef,
                           lastTickTimeRef, timeRemainingRef>>
  /\ UNCHANGED <<lastTick, tickedAt, ticksStrict, completeCount, resumedAt>>

\* resumeTimer's guard: if (!isRunningRef.current || !isPausedRef.current) return
resumeTimerReturns == ~isRunningRef \/ ~isPausedRef

CoreResumeTimer ==
  /\ op' = "resume"
  /\ IF resumeTimerReturns
       THEN /\ noop' = TRUE
            /\ UNCHANGED <<coreRefs, awaitingFirst, resumedAt>>
       ELSE /\ noop' = FALSE
            /\ startTimeRef' = now
            /\ isPausedRef' = FALSE
            /\ lastTickTimeRef' = 0
            /\ animationFrame' = TRUE
            /\ awaitingFirst' = TRUE
            /\ resumedAt' = now
            /\ UNCHANGED <<pausedTimeRef, durationRef, isRunningRef, timeRemainingRef>>
  /\ UNCHANGED <<lastTick, tickedAt, ticksStrict, completeCount, interfered,
                 remAtPause, firstAfterResume, sinceResume>>

CoreStopTimer ==
  /\ op' = "stop"
  /\ noop' = FALSE
  /\ isRunningRef' = FALSE
  /\ isPausedRef' = FALSE
  /\ startTimeRef' = Null
  /\ pausedTimeRef' = 0
  /\ durationRef' = 0
  /\ timeRemainingRef' = 0
  /\ animationFrame' = FALSE
  /\ interfered' = TRUE
  /\ awaitingFirst' = FALSE
  /\ UNCHANGED <<lastTickTimeRef, lastTick, tickedAt, ticksStrict, completeCount,
                 remAtPause, resumedAt, firstAfterResume, sinceResume>>

CoreInit ==
  /\ animationFrame = FALSE
  /\ startTimeRef = Null
  /\ pausedTimeRef = 0
  /\ durationRef = 0
  /\ isRunningRef = FALSE
  /\ isPausedRef = FALSE
  /\ lastTickTimeRef = 0
  /\ timeRemainingRef = 0
  /\ op = "init"
  /\ noop = FALSE
  /\ lastTick = None
  /\ tickedAt = None
  /\ ticksStrict = TRUE
  /\ completeCount = 0
  /\ interfered = FALSE
  /\ remAtPause = None
  /\ awaitingFirst = FALSE
  /\ resumedAt = 0
  /\ firstAfterResume = None
  /\ sinceResume = 0

(***************************************************************************)
(* useTimerSettings                                                        *)
(***************************************************************************)
CACHE_DURATION_MS == 5 * 60 * 1000

\* A settings state that holds null.
NullSettings == [null |-> TRUE]

\* PomodoroSettings as the backend returns them (the fields the timer reads).
SettingsRecord(work, cycle, autoBreaks, autoWork, audio, notifications) ==
  [ work_duration |-> work,
    short_break_duration |-> 1,
    long_break_duration |-> 2,
    sessions_until_long_break |-> cycle,
    auto_start_breaks |-> autoBreaks,
    auto_start_work |-> autoWork,
    enable_audio |-> audio,
    enable_notifications |-> notifications ]

\* The records the server returns in the settings model.
ServerSettings ==
  { SettingsRecord(w, 2, a, FALSE, TRUE, TRUE) : w \in {1, 2}, a \in BOOLEAN }

\* The Partial<PomodoroSettings> arguments passed to updateSettings.
Partials ==
  { [work_duration |-> 1], [work_duration |-> 2], [auto_start_breaks |-> TRUE],
    [work_duration |-> 2, auto_start_breaks |-> FALSE] }

\* { ...settings, ...newSettings }
Override(s, partial) ==
  [ f \in DOMAIN s |-> IF f \in DOMAIN partial THEN partial[f] ELSE s[f] ]

\* The cache test of loadSettings:
\* settingsCache && cacheTimestamp && Date.now() - cacheTimestamp < CACHE_DURATION_MS
cacheFresh_Inclusive ==
  /\ settingsCache # NullSettings
  /\ cacheTimestamp # Null
  /\ now - cacheTimestamp <= CACHE_DURATION_MS

cacheFresh ==
  /\ settingsCache # NullSettings
  /\ cacheTimestamp # Null
  /\ now - cacheTimestamp < CACHE_DURATION_MS

\* What the history keeps of the state an operation started in.
Before == [ settings |-> settings, cache |-> settingsCache, ts |-> cacheTimestamp,
            issued |-> issued ]

\* if (abortControllerRef.current) abortControllerRef.current.abort();
\* abortControllerRef.current = new AbortController();
\* The controller's signal is handed to no request: apiService's
\* getPomodoroSettings() and updatePomodoroSettings(data) take none.
NewController(id) ==
  /\ abortedControllers' =
       IF abortControllerRef # Null
         THEN abortedControllers \cup {abortControllerRef}
         ELSE abortedControllers
  /\ abortControllerRef' = id

LoadSettings(forceRefresh) ==
  /\ spre' = Before
  /\ sresp' = NullSettings
  /\ IF ~forceRefresh /\ cacheFresh
       THEN /\ settings' = settingsCache
            /\ sop' = "load-cached"
            /\ sreq' = [id |-> 0, kind |-> "load", force |-> forceRefresh,
                        snapshot |-> NullSettings, partial |-> <<>>]
            /\ UNCHANGED <<settingsCache, cacheTimestamp, settingsIsLoading,
                           settingsError, abortControllerRef, abortedControllers,
                           requests, issued>>
       ELSE /\ issued < MaxRequests
            /\ LET r == [id |-> issued + 1, kind |-> "load", force |-> forceRefresh,
                         snapshot |-> NullSettings, partial |-> <<>>]
               IN /\ NewController(r.id)
                  /\ settingsIsLoading' = TRUE
                  /\ settingsError' = "none"
                  /\ requests' = requests \cup {r}
                  /\ issued' = issued + 1
                  /\ sop' = "load-request"
                  /\ sreq' = r
            /\ UNCHANGED <<settingsCache, cacheTimestamp, settings>>
  /\ UNCHANGED <<now, clockSteps>>

\* finally { setIsLoading(false); abortControllerRef.current = null; }
SettingsFinally ==
  /\ settingsIsLoading' = FALSE
  /\ abortControllerRef' = Null

\* getPomodoroSettings() resolves with the server's record.
LoadSettingsResolves(r, userSettings) ==
  /\ r \in requests /\ r.kind = "load"
  /\ requests' = requests \ {r}
  /\ spre' = Before
  /\ sop' = "load-ok"
  /\ sreq' = r
  /\ sresp' = userSettings
  /\ settingsCache' = userSettings
  /\ cacheTimestamp' = now
  /\ settings' = userSettings
  /\ SettingsFinally
  /\ UNCHANGED <<settingsError, abortedControllers, issued, now, clockSteps>>

\* getPomodoroSettings() rejects (apiService throws an Error, never an AbortError).
LoadSettingsRejects(r) ==
  /\ r \in requests /\ r.kind = "load"
  /\ requests' = requests \ {r}
  /\ spre' = Before
  /\ sop' = "load-failed"
  /\ sreq' = r
  /\ sresp' = NullSettings
  /\ settingsError' = "Failed to load timer settings"
  /\ SettingsFinally
  /\ UNCHANGED <<settingsCache, cacheTimestamp, settings, abortedControllers,
                 issued, now, clockSteps>>

\* const updatedSettings = { ...settings, ...newSettings }; setSettings(updatedSettings)
optimisticSettings_Deferred(partial) == settings

optimisticSettings(partial) == Override(settings, partial)

UpdateSettings(partial) ==
  /\ spre' = Before
  /\ sresp' = NullSettings
  /\ IF settings = NullSettings
       THEN \* throw new Error('Settings not loaded')
            /\ sop' = "update-not-loaded"
            /\ sreq' = [id |-> 0, kind |-> "update", force |-> FALSE,
                        snapshot |-> NullSettings, partial |-> partial]
            /\ UNCHANGED <<settingsState, abortedControllers, requests, issued>>
       ELSE /\ issued < MaxRequests
            /\ LET r == [id |-> issued + 1, kind |-> "update", force |-> FALSE,
                         snapshot |-> settings, partial |-> partial]
               IN /\ NewController(r.id)
                  /\ settingsIsLoading' = TRUE
                  /\ settingsError' = "none"
                  /\ settings' = optimisticSettings(partial)
                  /\ requests' = requests \cup {r}
                  /\ issued' = issued + 1
                  /\ sop' = "update-request"
                  /\ sreq' = r
            /\ UNCHANGED <<settingsCache, cacheTimestamp>>
  /\ UNCHANGED <<now, clockSteps>>

\* updatePomodoroSettings(newSettings) resolves with the server's record.
UpdateSettingsResolves(r, savedSettings) ==
  /\ r \in requests /\ r.kind = "update"
  /\ requests' = requests \ {r}
  /\ spre' = Before
  /\ sop' = "update-ok"
  /\ sreq' = r
  /\ sresp' = savedSettings
  /\ settingsCache' = savedSettings
  /\ cacheTimestamp' = now
  /\ settings' = savedSettings
  /\ SettingsFinally
  /\ UNCHANGED <<settingsError, abortedControllers, issued, now, clockSteps>>

\* catch: setSettings(settings), the settings of the render updateSettings ran in.
rollbackSettings_KeepOptimistic(r) == settings

rollbackSettings(r) == r.snapshot

\* updatePomodoroSettings(newSettings) rejects.
UpdateSettingsRejects(r) ==
  /\ r \in requests /\ r.kind = "update"
  /\ requests' = requests \ {r}
  /\ spre' = Before
  /\ sop' = "update-failed"
  /\ sreq' = r
  /\ sresp' = NullSettings
  /\ settings' = rollbackSettings(r)
  /\ settingsError' = "Failed to save timer settings"
  /\ SettingsFinally
  /\ UNCHANGED <<settingsCache, cacheTimestamp, abortedControllers, issued, now,
                 clockSteps>>

\* The clock of the settings model: a millisecond, or just short of the cache's
\* lifetime, so that a cache age of CACHE_DURATION_MS - 1, CACHE_DURATION_MS and
\* CACHE_DURATION_MS + 1 all occur.
SettingsClock ==
  /\ clockSteps < MaxClockSteps
  /\ clockSteps' = clockSteps + 1
  /\ \E d \in {1, CACHE_DURATION_MS - 1} : now' = now + d
  /\ sop' = "clock"
  /\ UNCHANGED <<settingsState, abortedControllers, requests, issued, sreq, sresp,
                 spre>>

SettingsInit ==
  /\ settingsCache = NullSettings
  /\ cacheTimestamp = Null
  /\ settings = NullSettings
  /\ settingsIsLoading = FALSE
  /\ settingsError = "none"
  /\ abortControllerRef = Null
  /\ abortedControllers = {}
  /\ requests = {}
  /\ issued = 0
  /\ clockSteps = 0
  /\ sop = "init"
  /\ sreq = [id |-> 0, kind |-> "none", force |-> FALSE,
             snapshot |-> NullSettings, partial |-> <<>>]
  /\ sresp = NullSettings
  /\ spre = [ settings |-> NullSettings, cache |-> NullSettings, ts |-> Null,
              issued |-> 0 ]

\* The settings hook once the page's first loadSettings() has resolved with
\* record s, at T0.
SettingsLoaded(s) ==
  /\ settingsCache = s
  /\ cacheTimestamp = T0
  /\ settings = s
  /\ settingsIsLoading = FALSE
  /\ settingsError = "none"
  /\ abortControllerRef = Null
  /\ abortedControllers = {}
  /\ requests = {}
  /\ issued = 1
  /\ clockSteps = 0
  /\ sop = "load-ok"
  /\ sreq = [id |-> 1, kind |-> "load", force |-> FALSE,
             snapshot |-> NullSettings, partial |-> <<>>]
  /\ sresp = s
  /\ spre = [ settings |-> NullSettings, cache |-> NullSettings, ts |-> Null,
              issued |-> 1 ]

(***************************************************************************)
(* useTimerSession                                                         *)
(***************************************************************************)
SessionTypes == {"work", "short_break", "long_break"}

\* A currentSession that holds null.
NullSession == [null |-> TRUE]

\* useTimerSession({ sessionsUntilLongBreak = 4 }): the default applies when the
\* coordinator passes settings?.sessions_until_long_break of null settings.
DefaultSessionsUntilLongBreak == 4

sessionsUntilLongBreak ==
  IF settings = NullSettings
    THEN DefaultSessionsUntilLongBreak
    ELSE settings.sessions_until_long_break

\* useTimerSession.getNextSessionType, of the closure's sessionType,
\* sessionNumber and sessionsUntilLongBreak.
getNextSessionType_AtCycleLength(type, number, cycle) ==
  IF type = "work"
    THEN IF number = cycle THEN "long_break" ELSE "short_break"
    ELSE "work"

getNextSessionType(type, number, cycle) ==
  IF type = "work"
    THEN IF number % cycle = 0 THEN "long_break" ELSE "short_break"
    ELSE "work"

\* hooks/usePomodoroTimer.getNextSessionType:
\* settings?.sessions_until_long_break || 4, then sessionNumber >= that.
LegacyDefaultCycle == 4

legacyGetNextSessionType(type, number, stg) ==
  LET cycle == IF stg = NullSettings \/ stg.sessions_until_long_break = 0
                 THEN LegacyDefaultCycle
                 ELSE stg.sessions_until_long_break
  IN IF type = "work"
       THEN IF number >= cycle THEN "long_break" ELSE "short_break"
       ELSE "work"

\* No getNextSessionType call yet.
NoCall == [called |-> FALSE]

\* A call of getNextSessionType by each hook on the same state.
GetNextSessionType ==
  nextType' = [ called |-> TRUE,
                type |-> sessionType,
                number |-> sessionNumber,
                cycle |-> sessionsUntilLongBreak,
                settingsLoaded |-> settings # NullSettings,
                result |-> getNextSessionType(sessionType, sessionNumber,
                                              sessionsUntilLongBreak),
                legacy |-> legacyGetNextSessionType(sessionType, sessionNumber,
                                                    settings) ]

\* useTimerSession.updateSessionType(newType)
UpdateSessionType(newType) ==
  /\ sessionType' = newType
  /\ sessionNumber' = IF newType = "work" /\ sessionType # "work"
                        THEN sessionNumber + 1
                        ELSE sessionNumber

SessionInit ==
  /\ currentSession = NullSession
  /\ sessionType = "work"
  /\ sessionNumber = 1
  /\ totalSessions = 0
  /\ sessionIsLoading = FALSE
  /\ sessionError = "none"
  /\ serverSessions = <<>>
  /\ nextType = NoCall

(***************************************************************************)
(* hooks/timer/usePomodoroTimer, the coordinator                           *)
(***************************************************************************)
\* timerSettings.getSessionDuration(type) * 60
SecondsPerMinute == 60

\* useTimerSettings.getSessionDuration: minutes of a session of the type.
getSessionDuration(type) ==
  IF settings = NullSettings
    THEN CASE type = "work" -> 25
           [] type = "short_break" -> 5
           [] type = "long_break" -> 15
    ELSE CASE type = "work" -> settings.work_duration
           [] type = "short_break" -> settings.short_break_duration
           [] type = "long_break" -> settings.long_break_duration

\* What a handler created by the current render reads from the hooks' state.
Closure == [ cs |-> currentSession, lt |-> localSessionType,
             st |-> sessionType, sn |-> sessionNumber ]

\* The state of the hooks at construction.
NullClosure == [ cs |-> NullSession, lt |-> "work", st |-> "work", sn |-> 1 ]

\* useState(0), useState('work'), and the effect "Initialize display on
\* settings load" once settings are there.
CoordinatorInit ==
  /\ timeRemaining = IF settings = NullSettings
                       THEN 0
                       ELSE getSessionDuration("work") * SecondsPerMinute
  /\ localSessionType = "work"
  /\ viewIsRunning = FALSE
  /\ viewIsPaused = FALSE
  /\ chain = NullClosure
  /\ calls = {}
  /\ callCount = 0
  /\ timerClock = 0
  /\ top = "init"
  /\ prevAtStart = "init"

\* const isLoading = timerSettings.isLoading || timerSession.isLoading
isLoading == settingsIsLoading \/ sessionIsLoading

\* Boolean(timerSettings.settings && !timerCore.isRunning && !isLoading)
canStartTimer == settings # NullSettings /\ ~viewIsRunning /\ ~isLoading

\* TimerControls: which control the page offers, from the props of the last
\* render.  Start and the quick-start buttons call onStart(type).
StartOffered == ~viewIsRunning /\ ~viewIsPaused /\ canStartTimer /\ ~isLoading
ResumeOffered == ~(~viewIsRunning /\ ~viewIsPaused) /\ viewIsPaused /\ ~isLoading
PauseOffered == ~(~viewIsRunning /\ ~viewIsPaused) /\ ~viewIsPaused /\ ~isLoading
SkipOffered == (viewIsRunning \/ viewIsPaused) /\ ~isLoading
StopOffered == (viewIsRunning \/ viewIsPaused) /\ ~isLoading

\* A handler of render c suspended at its await on the backend.
\* before is what the session hook held when the call was made.
CallOf(kind, c, id, type, updates, before) ==
  [kind |-> kind, c |-> c, id |-> id, type |-> type, updates |-> updates,
   before |-> before]

\* The session hook's current session and counter, as they are.
HookNow == [cs |-> currentSession, total |-> totalSessions]

\* What the session hook holds when a new session is requested: nothing, a
\* session the backend has closed, or one it has not.
PrevOf(session, server) ==
  IF session = NullSession
    THEN "none"
    ELSE IF server[session.id] \in {"completed", "cancelled"}
           THEN "released"
           ELSE "live"

\* A state update re-renders the coordinator: the render reads
\* timerCore.isRunning / isPaused from the refs, and its effect resets the
\* display while the engine is idle.  tr is what the step's setTimeRemaining
\* calls leave.
Rendered(tr) ==
  IF <<sessionState, localSessionType>>' # <<sessionState, localSessionType>>
       \/ tr # timeRemaining
    THEN /\ viewIsRunning' = isRunningRef'
         /\ viewIsPaused' = isPausedRef'
         /\ timeRemaining' =
              IF settings # NullSettings /\ ~isRunningRef' /\ ~isPausedRef'
                THEN getSessionDuration(localSessionType') * SecondsPerMinute
                ELSE tr
    ELSE UNCHANGED <<viewState, timeRemaining>>

\* createSession's prologue: setIsLoading(true); setError(null); the POST.
RequestCreate(c, type, others, before) ==
  /\ sessionIsLoading' = TRUE
  /\ sessionError' = "none"
  /\ calls' = others \cup {CallOf("create", c, 0, type, "none", before)}

\* startTimer(type) -> startNextSession(type) up to the await on createSession.
CoordStartTimer(type) ==
  /\ StartOffered
  /\ callCount < MaxCalls
  /\ callCount' = callCount + 1
  /\ top' = "start"
  /\ prevAtStart' = PrevOf(currentSession, serverSessions)
  /\ RequestCreate(Closure, type, calls, HookNow)
  /\ UNCHANGED <<coreVars, currentSession, sessionType, sessionNumber,
                 totalSessions, localSessionType, chain, serverSessions,
                 nextType, timerClock>>
  /\ Rendered(timeRemaining)

\* createSession, on success: setCurrentSession(session)
storeCreated_Keep(session) == currentSession

storeCreated(session) == session

\* createPomodoroSession resolves; startNextSession goes on:
\* timerCore.startTimer(duration); setSessionType(type).
CreateSessionResolves(k) ==
  /\ k \in calls /\ k.kind = "create"
  /\ Len(serverSessions) < MaxSessions
  /\ LET session == [id |-> Len(serverSessions) + 1, session_type |-> k.type,
                     paused_at |-> FALSE, ended_at |-> FALSE]
         duration == getSessionDuration(k.type) * SecondsPerMinute
     IN /\ serverSessions' = Append(serverSessions, "active")
        /\ calls' = calls \ {k}
        /\ currentSession' = storeCreated(session)
        /\ sessionIsLoading' = FALSE
        /\ CoreStartTimer(duration)
        /\ chain' = IF startTimerReturns THEN chain ELSE k.c
        /\ localSessionType' = k.type
        /\ top' = "create-ok"
        /\ UNCHANGED <<sessionType, sessionNumber, totalSessions, sessionError,
                       callCount, nextType, prevAtStart, timerClock>>
        /\ Rendered(IF startTimerReturns THEN timeRemaining ELSE duration)

\* createPomodoroSession rejects: setError; setIsLoading(false); rethrown.
CreateSessionRejects(k) ==
  /\ k \in calls /\ k.kind = "create"
  /\ calls' = calls \ {k}
  /\ sessionError' = "Failed to create session"
  /\ sessionIsLoading' = FALSE
  /\ top' = "create-failed"
  /\ UNCHANGED <<coreVars, currentSession, sessionType, sessionNumber,
                 totalSessions, localSessionType, chain, callCount,
                 serverSessions, nextType, prevAtStart, timerClock>>
  /\ Rendered(timeRemaining)

\* completeSession's / updateSession's prologue:
\* setIsLoading(true); setError(null); the request.
RequestSettle(kind, c, updates, others, before) ==
  /\ sessionIsLoading' = TRUE
  /\ sessionError' = "none"
  /\ calls' = others \cup {CallOf(kind, c, c.cs.id, "none", updates, before)}

\* The scheduled frame: updateTimer of the render the chain was started in.
\* onTick is setTimeRemaining(remaining); onComplete is handleTimerComplete(),
\* which returns at once if that render saw no current session and otherwise
\* goes up to its await on completeSession.
CoordUpdateTimer ==
  /\ CoreUpdateTimer
  /\ IF FrameCompletes /\ chain.cs # NullSession
       THEN /\ RequestSettle("complete", chain, "none", calls, HookNow)
            /\ top' = "complete-request"
       ELSE /\ UNCHANGED <<sessionIsLoading, sessionError, calls>>
            /\ top' = IF FrameCompletes THEN "complete-ignored" ELSE "frame"
  /\ UNCHANGED <<currentSession, sessionType, sessionNumber, totalSessions,
                 localSessionType, chain, callCount, serverSessions, nextType,
                 prevAtStart, timerClock>>
  /\ Rendered(IF FrameTicks THEN Remaining ELSE timeRemaining)

\* shouldAutoStart of handleTimerComplete
shouldAutoStart(next) ==
  /\ settings # NullSettings
  /\ \/ next = "work" /\ settings.auto_start_work
     \/ next # "work" /\ settings.auto_start_breaks

\* completeSession, on success: setTotalSessions(prev => prev + 1)
countCompleted_Twice == totalSessions + 2

countCompleted == totalSessions + 1

\* completePomodoroSession resolves.  completeSession clears the session its
\* render saw; then skipTimer goes on to handleTimerComplete(), and
\* handleTimerComplete goes on to the next session type and the auto-start.
CompleteSessionResolves(k) ==
  /\ k \in calls /\ k.kind \in {"complete", "skip"}
  /\ serverSessions' = [serverSessions EXCEPT ![k.id] = "completed"]
  /\ currentSession' =
       IF k.c.cs # NullSession /\ k.c.cs.id = k.id THEN NullSession ELSE currentSession
  /\ totalSessions' =
       IF k.c.cs # NullSession /\ k.c.cs.id = k.id
         THEN countCompleted ELSE totalSessions
  /\ UNCHANGED <<coreVars, chain, callCount, nextType, timerClock>>
  /\ IF k.kind = "skip"
       THEN /\ RequestSettle("complete", k.c, "none", calls \ {k}, HookNow')
            /\ top' = "skip-ok"
            /\ UNCHANGED <<sessionType, sessionNumber, localSessionType, prevAtStart>>
            /\ Rendered(timeRemaining)
       ELSE LET next == getNextSessionType(k.c.st, k.c.sn, sessionsUntilLongBreak)
            IN /\ top' = "complete-ok"
               /\ sessionType' = next
               /\ sessionNumber' = IF next = "work" /\ k.c.st # "work"
                                     THEN sessionNumber + 1
                                     ELSE sessionNumber
               /\ localSessionType' = next
               /\ IF shouldAutoStart(next)
                    THEN /\ RequestCreate(k.c, next, calls \ {k}, HookNow')
                         /\ prevAtStart' = PrevOf(currentSession', serverSessions')
                         /\ Rendered(timeRemaining)
                    ELSE /\ calls' = calls \ {k}
                         /\ sessionIsLoading' = FALSE
                         /\ UNCHANGED <<sessionError, prevAtStart>>
                         /\ Rendered(getSessionDuration(next) * SecondsPerMinute)

\* completePomodoroSession rejects: setError; setIsLoading(false); the caller
\* logs the error.
CompleteSessionRejects(k) ==
  /\ k \in calls /\ k.kind \in {"complete", "skip"}
  /\ calls' = calls \ {k}
  /\ sessionError' = "Failed to complete session"
  /\ sessionIsLoading' = FALSE
  /\ top' = IF k.kind = "skip" THEN "skip-failed" ELSE "complete-failed"
  /\ UNCHANGED <<coreVars, currentSession, sessionType, sessionNumber,
                 totalSessions, localSessionType, chain, callCount,
                 serverSessions, nextType, prevAtStart, timerClock>>
  /\ Rendered(timeRemaining)

\* A control whose handler returns at `if (!timerSession.currentSession) return`.
ControlIgnored(name) ==
  /\ top' = name
  /\ UNCHANGED <<coreVars, sessionState, localSessionType, calls, chain>>
  /\ Rendered(timeRemaining)

\* pauseTimer up to its await on updateSession.
CoordPauseTimer ==
  /\ PauseOffered
  /\ callCount < MaxCalls
  /\ callCount' = callCount + 1
  /\ IF currentSession = NullSession
       THEN ControlIgnored("pause-ignored")
       ELSE /\ CorePauseTimer
            /\ RequestSettle("update", Closure, "pause", calls, HookNow)
            /\ top' = "pause"
            /\ UNCHANGED <<currentSession, sessionType, sessionNumber,
                           totalSessions, localSessionType, chain>>
            /\ Rendered(timeRemaining)
  /\ UNCHANGED <<serverSessions, nextType, prevAtStart, timerClock>>

\* resumeTimer up to its await on updateSession; an effective
\* timerCore.resumeTimer() schedules the updateTimer of this render.
CoordResumeTimer ==
  /\ ResumeOffered
  /\ callCount < MaxCalls
  /\ callCount' = callCount + 1
  /\ IF currentSession = NullSession
       THEN ControlIgnored("resume-ignored")
       ELSE /\ CoreResumeTimer
            /\ chain' = IF resumeTimerReturns THEN chain ELSE Closure
            /\ RequestSettle("update", Closure, "resume", calls, HookNow)
            /\ top' = "resume"
            /\ UNCHANGED <<currentSession, sessionType, sessionNumber,
                           totalSessions, localSessionType>>
            /\ Rendered(timeRemaining)
  /\ UNCHANGED <<serverSessions, nextType, prevAtStart, timerClock>>

\* skipTimer up to its await on completeSession.
CoordSkipTimer ==
  /\ SkipOffered
  /\ callCount < MaxCalls
  /\ callCount' = callCount + 1
  /\ IF currentSession = NullSession
       THEN ControlIgnored("skip-ignored")
       ELSE /\ CoreStopTimer
            /\ RequestSettle("skip", Closure, "none", calls, HookNow)
            /\ top' = "skip"
            /\ UNCHANGED <<currentSession, sessionType, sessionNumber,
                           totalSessions, localSessionType, chain>>
            /\ Rendered(timeRemaining)
  /\ UNCHANGED <<serverSessions, nextType, prevAtStart, timerClock>>

\* stopTimer's epilogue: setSessionType('work'); setTimeRemaining(work duration).
ResetToWork ==
  /\ localSessionType' = "work"
  /\ Rendered(getSessionDuration("work") * SecondsPerMinute)

\* stopTimer up to its await on updateSession, or to its end without a session.
CoordStopTimer ==
  /\ StopOffered
  /\ callCount < MaxCalls
  /\ callCount' = callCount + 1
  /\ CoreStopTimer
  /\ top' = "stop"
  /\ IF currentSession # NullSession
       THEN /\ RequestSettle("update", Closure, "stop", calls, HookNow)
            /\ UNCHANGED <<currentSession, sessionType, sessionNumber,
                           totalSessions, localSessionType>>
            /\ Rendered(timeRemaining)
       ELSE /\ UNCHANGED <<sessionState, calls>>
            /\ ResetToWork
  /\ UNCHANGED <<chain, serverSessions, nextType, prevAtStart, timerClock>>

\* The backend's status of a session after the update.
statusAfter(updates) ==
  CASE updates = "pause" -> "paused"
    [] updates = "resume" -> "active"
    [] updates = "stop" -> "cancelled"

\* setCurrentSession(prev => prev ? { ...prev, ...updates } : null)
mergeUpdates(prev, updates) ==
  IF prev = NullSession
    THEN NullSession
    ELSE CASE updates = "pause" -> [prev EXCEPT !.paused_at = TRUE]
           [] updates = "resume" -> [prev EXCEPT !.paused_at = FALSE]
           [] updates = "stop" -> [prev EXCEPT !.ended_at = TRUE]

\* updatePomodoroSession resolves; stopTimer goes on to its epilogue.
UpdateSessionResolves(k) ==
  /\ k \in calls /\ k.kind = "update"
  /\ calls' = calls \ {k}
  /\ serverSessions' = [serverSessions EXCEPT ![k.id] = statusAfter(k.updates)]
  /\ currentSession' =
       IF k.c.cs # NullSession /\ k.c.cs.id = k.id
         THEN mergeUpdates(currentSession, k.updates)
         ELSE currentSession
  /\ sessionIsLoading' = FALSE
  /\ top' = "update-ok"
  /\ UNCHANGED <<coreVars, sessionType, sessionNumber, totalSessions,
                 sessionError, chain, callCount, nextType, prevAtStart, timerClock>>
  /\ IF k.updates = "stop"
       THEN ResetToWork
       ELSE UNCHANGED localSessionType /\ Rendered(timeRemaining)

\* updatePomodoroSession rejects: setError; setIsLoading(false); the caller
\* logs the error, and stopTimer goes on to its epilogue.
UpdateSessionRejects(k) ==
  /\ k \in calls /\ k.kind = "update"
  /\ calls' = calls \ {k}
  /\ sessionError' = "Failed to update session"
  /\ sessionIsLoading' = FALSE
  /\ top' = "update-failed"
  /\ UNCHANGED <<coreVars, currentSession, sessionType, sessionNumber,
                 totalSessions, chain, callCount, serverSessions, nextType,
                 prevAtStart, timerClock>>
  /\ IF k.updates = "stop"
       THEN ResetToWork
       ELSE UNCHANGED localSessionType /\ Rendered(timeRemaining)

(***************************************************************************)
(* hooks/usePomodoroTimer, the legacy hook                                 *)
(***************************************************************************)
\* timerIntervalRef.current === null
NoInterval == [null |-> TRUE]

\* window.setInterval(..., 1000)
LegacyIntervalMs == 1000

\* useState<TimerState>({ ... }): the initial timer state.
InitialTimerState ==
  [ isRunning |-> FALSE, isPaused |-> FALSE, currentSession |-> NullSession,
    timeRemaining |-> 0, sessionType |-> "work", sessionNumber |-> 1,
    totalSessions |-> 0 ]

\* The legacy hook as constructed, before its mount effect.
LegacyConstructed ==
  /\ timerState = InitialTimerState
  /\ legacySettings = NullSettings
  /\ legacyIsLoading = FALSE
  /\ legacyError = "none"
  /\ timerIntervalRef = NoInterval
  /\ intervalLast = 0
  /\ legacyStartTimeRef = Null
  /\ legacyPausedTimeRef = 0
  /\ legacyCalls = {}
  /\ legacyCount = 0
  /\ legacyClock = 0
  /\ legacyServer = <<>>
  /\ lop = "init"

\* getSessionDuration of the legacy hook: 25 without settings.
legacyGetSessionDuration(type) ==
  IF legacySettings = NullSettings
    THEN 25
    ELSE CASE type = "work" -> legacySettings.work_duration
           [] type = "short_break" -> legacySettings.short_break_duration
           [] type = "long_break" -> legacySettings.long_break_duration

\* const canStartTimer = !timerState.isRunning && !isLoading
legacyCanStartTimer == ~timerState.isRunning /\ ~legacyIsLoading

\* The page renders the controls once settings are there; TimerControls
\* offers each button from timerState.isRunning / isPaused and isLoading.
LegacyControls == legacySettings # NullSettings
LegacyIdle == ~timerState.isRunning /\ ~timerState.isPaused
LegacyStartOffered ==
  LegacyControls /\ LegacyIdle /\ legacyCanStartTimer /\ ~legacyIsLoading
LegacyResumeOffered ==
  LegacyControls /\ ~LegacyIdle /\ timerState.isPaused /\ ~legacyIsLoading
LegacyPauseOffered ==
  LegacyControls /\ ~LegacyIdle /\ ~timerState.isPaused /\ ~legacyIsLoading
LegacySkipOffered ==
  LegacyControls /\ (timerState.isRunning \/ timerState.isPaused) /\ ~legacyIsLoading
LegacyStopOffered ==
  LegacyControls /\ (timerState.isRunning \/ timerState.isPaused) /\ ~legacyIsLoading

\* startLocalTimer(initialSeconds)
StartLocalTimer(initialSeconds) ==
  /\ legacyStartTimeRef' = now
  /\ legacyPausedTimeRef' = 0
  /\ timerIntervalRef' = [initial |-> initialSeconds]
  /\ intervalLast' = now

\* stopLocalTimer()
StopLocalTimer ==
  /\ timerIntervalRef' = NoInterval
  /\ legacyStartTimeRef' = Null
  /\ legacyPausedTimeRef' = 0
  /\ UNCHANGED intervalLast

\* pauseLocalTimer()
PauseLocalTimer ==
  IF timerIntervalRef # NoInterval /\ legacyStartTimeRef # Null
    THEN /\ legacyPausedTimeRef' = legacyPausedTimeRef + (now - legacyStartTimeRef)
         /\ timerIntervalRef' = NoInterval
         /\ UNCHANGED <<legacyStartTimeRef, intervalLast>>
    ELSE UNCHANGED legacyRefs

\* resumeLocalTimer(): the new interval counts down from
\* timerStateRef.current.timeRemaining.
ResumeLocalTimer ==
  IF timerIntervalRef = NoInterval /\ legacyStartTimeRef # Null
    THEN /\ legacyStartTimeRef' = now
         /\ timerIntervalRef' = [initial |-> timerState.timeRemaining]
         /\ intervalLast' = now
         /\ UNCHANGED legacyPausedTimeRef
    ELSE UNCHANGED legacyRefs

\* The backend's record of a session, and the session it returns for it.
ServerSession(status, type, number) ==
  [status |-> status, session_type |-> type, session_number |-> number]

SessionOf(id, minutes) ==
  [ id |-> id, session_type |-> legacyServer[id].session_type,
    session_number |-> legacyServer[id].session_number,
    status |-> legacyServer[id].status, remaining_minutes |-> minutes ]

\* The session the backend reports as active: its newest active or paused one.
ActiveIds ==
  { i \in DOMAIN legacyServer : legacyServer[i].status \in {"active", "paused"} }

NewestActive == CHOOSE i \in ActiveIds : \A j \in ActiveIds : j <= i

\* The hook's state and what the handlers of the render read, kept with a call.
LegacyNow == [ ts |-> timerState, interval |-> timerIntervalRef,
               start |-> legacyStartTimeRef, paused |-> legacyPausedTimeRef ]

\* A legacy handler suspended at its await.  empty tells whether the backend
\* had no active session when the request reached it.
LegacyCall(kind, id, type, number) ==
  [kind |-> kind, id |-> id, type |-> type, number |-> number,
   before |-> LegacyNow, at |-> now, empty |-> (ActiveIds = {})]

\* A legacy call settles.
LegacySettles(k, name) ==
  /\ k \in legacyCalls
  /\ legacyCalls' = legacyCalls \ {k}
  /\ lop' = name

\* loadSettings resolves / rejects.
LegacyLoadSettingsResolves(k, userSettings) ==
  /\ k.kind = "settings"
  /\ LegacySettles(k, "settings-ok")
  /\ legacySettings' = userSettings
  /\ legacyError' = "none"
  /\ legacyIsLoading' = FALSE
  /\ UNCHANGED <<timerState, legacyRefs, legacyCount, legacyServer>>

LegacyLoadSettingsRejects(k) ==
  /\ k.kind = "settings"
  /\ LegacySettles(k, "settings-failed")
  /\ legacyError' = "Failed to load settings"
  /\ legacyIsLoading' = FALSE
  /\ UNCHANGED <<timerState, legacySettings, legacyRefs, legacyCount, legacyServer>>

\* loadActiveSession(), called by the mount effect and, while the timer is
\* running, when the page becomes visible again.
LegacyLoadActiveSession ==
  /\ timerState.isRunning
  /\ legacyCount < MaxLegacyCalls
  /\ legacyCount' = legacyCount + 1
  /\ legacyCalls' = legacyCalls \cup {LegacyCall("active", 0, "none", 0)}
  /\ lop' = "visible"
  /\ UNCHANGED <<legacyState, legacyRefs, legacyServer>>

\* getActivePomodoroSession resolves with the active session.
LegacyActiveSessionFound(k, minutes) ==
  /\ k.kind = "active"
  /\ ActiveIds # {}
  /\ LegacySettles(k, "active-found")
  /\ LET activeSession == SessionOf(NewestActive, minutes)
         remainingSeconds == activeSession.remaining_minutes * SecondsPerMinute
     IN /\ timerState' =
             [timerState EXCEPT
                !.currentSession = activeSession,
                !.timeRemaining = remainingSeconds,
                !.sessionType = activeSession.session_type,
                !.sessionNumber = activeSession.session_number,
                !.isRunning = (activeSession.status = "active"),
                !.isPaused = (activeSession.status = "paused")]
        /\ IF activeSession.status = "active"
             THEN StartLocalTimer(remainingSeconds)
             ELSE UNCHANGED legacyRefs
  /\ UNCHANGED <<legacySettings, legacyIsLoading, legacyError, legacyCount,
                 legacyServer>>

\* getActivePomodoroSession resolves with null: the backend has no active
\* session (an empty 204 response), now or when the request reached it.
\* if (activeSession) { ... } is skipped.
LegacyNoActiveSession(k) ==
  /\ k.kind = "active"
  /\ (ActiveIds = {} \/ k.empty)
  /\ LegacySettles(k, "active-none")
  /\ UNCHANGED <<legacyState, legacyRefs, legacyCount, legacyServer>>

\* getActivePomodoroSession rejects: console.error only.
LegacyActiveSessionRejects(k) ==
  /\ k.kind = "active"
  /\ LegacySettles(k, "active-failed")
  /\ UNCHANGED <<legacyState, legacyRefs, legacyCount, legacyServer>>

\* A control handler up to its await: setIsLoading(true) and the request.
LegacyRequest(k) ==
  /\ legacyCount < MaxLegacyCalls
  /\ legacyCount' = legacyCount + 1
  /\ legacyIsLoading' = TRUE
  /\ legacyCalls' = legacyCalls \cup {k}
  /\ lop' = k.kind
  /\ UNCHANGED <<timerState, legacySettings, legacyRefs, legacyServer>>

\* A control handler that returns at its guard.
LegacyIgnored(name) ==
  /\ legacyCount < MaxLegacyCalls
  /\ legacyCount' = legacyCount + 1
  /\ lop' = name
  /\ UNCHANGED <<legacyState, legacyRefs, legacyCalls, legacyServer>>

\* startTimer's session number for the new session.
newSessionNumber(type) ==
  IF type = "work"
    THEN IF timerState.sessionType = "long_break"
           THEN 1
           ELSE timerState.sessionNumber + 1
    ELSE timerState.sessionNumber

\* startTimer(type) up to its await on createPomodoroSession.
LegacyStartTimer(type) ==
  /\ LegacyStartOffered
  /\ legacyError' = "none"
  /\ LegacyRequest(LegacyCall("start", 0, type, newSessionNumber(type)))

\* createPomodoroSession resolves: the state is set, the local timer started.
LegacyStartResolves(k) ==
  /\ k.kind = "start"
  /\ Len(legacyServer) < MaxSessions
  /\ LegacySettles(k, "start-ok")
  /\ legacyServer' = Append(legacyServer, ServerSession("active", k.type, k.number))
  /\ LET timeInSeconds == legacyGetSessionDuration(k.type) * SecondsPerMinute
         newSession == [ id |-> Len(legacyServer) + 1, session_type |-> k.type,
                         session_number |-> k.number, status |-> "active",
                         remaining_minutes |-> legacyGetSessionDuration(k.type) ]
     IN /\ timerState' =
             [timerState EXCEPT
                !.currentSession = newSession,
                !.isRunning = TRUE,
                !.isPaused = FALSE,
                !.timeRemaining = timeInSeconds,
                !.sessionType = k.type,
                !.sessionNumber = k.number,
                !.totalSessions = timerState.totalSessions + 1]
        /\ StartLocalTimer(timeInSeconds)
  /\ legacyIsLoading' = FALSE
  /\ UNCHANGED <<legacySettings, legacyError, legacyCount>>

\* pauseTimer up to its await on pausePomodoroSession.
LegacyPauseTimer ==
  /\ LegacyPauseOffered
  /\ UNCHANGED legacyError
  /\ IF timerState.currentSession = NullSession \/ ~timerState.isRunning
       THEN LegacyIgnored("pause-ignored")
       ELSE LegacyRequest(LegacyCall("pause", timerState.currentSession.id, "none", 0))

\* Sets the status the backend holds for session id.
serverStatus(id, status) ==
  legacyServer' = [legacyServer EXCEPT ![id].status = status]

LegacyPauseResolves(k) ==
  /\ k.kind = "pause"
  /\ LegacySettles(k, "pause-ok")
  /\ serverStatus(k.id, "paused")
  /\ PauseLocalTimer
  /\ timerState' = [timerState EXCEPT !.isRunning = FALSE, !.isPaused = TRUE]
  /\ legacyIsLoading' = FALSE
  /\ UNCHANGED <<legacySettings, legacyError, legacyCount>>

\* resumeTimer up to its await on resumePomodoroSession.
LegacyResumeTimer ==
  /\ LegacyResumeOffered
  /\ UNCHANGED legacyError
  /\ IF timerState.currentSession = NullSession \/ timerState.isRunning
       THEN LegacyIgnored("resume-ignored")
       ELSE LegacyRequest(LegacyCall("resume", timerState.currentSession.id, "none", 0))

LegacyResumeResolves(k) ==
  /\ k.kind = "resume"
  /\ LegacySettles(k, "resume-ok")
  /\ serverStatus(k.id, "active")
  /\ ResumeLocalTimer
  /\ timerState' = [timerState EXCEPT !.isRunning = TRUE, !.isPaused = FALSE]
  /\ legacyIsLoading' = FALSE
  /\ UNCHANGED <<legacySettings, legacyError, legacyCount>>

\* skipTimer and stopTimer up to their await on skipPomodoroSession.
LegacySkipTimer ==
  /\ LegacySkipOffered
  /\ UNCHANGED legacyError
  /\ IF timerState.currentSession = NullSession
       THEN LegacyIgnored("skip-ignored")
       ELSE LegacyRequest(LegacyCall("skip", timerState.currentSession.id, "none", 0))

LegacyStopTimer ==
  /\ LegacyStopOffered
  /\ UNCHANGED legacyError
  /\ IF timerState.currentSession = NullSession
       THEN LegacyIgnored("stop-ignored")
       ELSE LegacyRequest(LegacyCall("stop", timerState.currentSession.id, "none", 0))

\* setTimerState(prev => ({ ...prev, currentSession: null, isRunning: false,
\*                          isPaused: false, timeRemaining: 0 }))
released(prev) ==
  [prev EXCEPT !.currentSession = NullSession, !.isRunning = FALSE,
               !.isPaused = FALSE, !.timeRemaining = 0]

\* skipPomodoroSession / completePomodoroSession resolves:
\* stopLocalTimer() and the state is released.
LegacyEndResolves(k) ==
  /\ k.kind \in {"skip", "stop", "complete"}
  /\ LegacySettles(k, IF k.kind = "skip" THEN "skip-ok"
                      ELSE IF k.kind = "stop" THEN "stop-ok" ELSE "complete-ok")
  /\ serverStatus(k.id, IF k.kind = "complete" THEN "completed" ELSE "skipped")
  /\ StopLocalTimer
  /\ timerState' = released(timerState)
  /\ legacyIsLoading' = FALSE
  /\ UNCHANGED <<legacySettings, legacyError, legacyCount>>

\* A control's request rejects: setError(message); setIsLoading(false).
LegacyControlRejects(k) ==
  /\ k.kind \in {"start", "pause", "resume", "skip", "stop", "complete"}
  /\ LegacySettles(k, "failed")
  /\ legacyError' = "Failed"
  /\ legacyIsLoading' = FALSE
  /\ UNCHANGED <<timerState, legacySettings, legacyRefs, legacyCount, legacyServer>>

\* The interval fires: the display is updated and, at 0,
\* completeTimerRef.current() runs up to its await (or returns at its guard).
legacyElapsed ==
  (now - legacyStartTimeRef - legacyPausedTimeRef) \div MsPerSecond

legacyRemaining == Max(0, timerIntervalRef.initial - legacyElapsed)

LegacyInterval ==
  /\ timerIntervalRef # NoInterval
  /\ now - intervalLast >= LegacyIntervalMs
  /\ intervalLast' = now
  /\ timerState' = [timerState EXCEPT !.timeRemaining = legacyRemaining]
  /\ IF legacyRemaining = 0 /\ timerState.currentSession # NullSession
       THEN /\ legacyIsLoading' = TRUE
            /\ legacyCalls' = legacyCalls \cup
                 {LegacyCall("complete", timerState.currentSession.id, "none", 0)}
            /\ lop' = "complete"
       ELSE /\ UNCHANGED <<legacyIsLoading, legacyCalls>>
            /\ lop' = "interval"
  /\ UNCHANGED <<legacySettings, legacyError, timerIntervalRef, legacyStartTimeRef,
                 legacyPausedTimeRef, legacyCount, legacyServer>>

(***************************************************************************)
(* ApiService: request() and the token refresh (services/api.ts)           *)
(***************************************************************************)
\* TOKEN_REFRESH (constants/apiEndpoints.ts)
MAX_RETRIES == 3
INITIAL_DELAY_MS == 1000
BACKOFF_MULTIPLIER == 2
MAX_DELAY_MS == 30000

Min(a, b) == IF a <= b THEN a ELSE b

\* Math.pow for a natural exponent.
RECURSIVE Pow(_, _)
Pow(b, e) == IF e = 0 THEN 1 ELSE b * Pow(b, e - 1)

\* The delay slept after a failed attempt.
refreshDelay_Fixed(attempt) == INITIAL_DELAY_MS

refreshDelay(attempt) ==
  Min(INITIAL_DELAY_MS * Pow(BACKOFF_MULTIPLIER, attempt - 1), MAX_DELAY_MS)

\* What fetch can come back with: an ok response, a 401, another error
\* status, or a rejection (network failure).
FetchOutcomes == {"ok", "401", "status", "network"}

\* A request() not yet made.
IdleRequest == [pc |-> "idle", sends |-> 0, isRetry |-> FALSE, result |-> "none"]

ApiConstructed ==
  /\ apiRequests = [i \in 1..MaxApiRequests |-> IdleRequest]
  /\ refreshPromise = FALSE
  /\ refreshPc = "idle"
  /\ refreshAttempt = 0
  /\ refreshWake = 0
  /\ refreshFailedAt = 0
  /\ userData = TRUE
  /\ aop = "init"

\* request(endpoint, options): the first fetch.
ApiRequest(i) ==
  /\ apiRequests[i].pc = "idle"
  /\ apiRequests' = [apiRequests EXCEPT ![i].pc = "fetch", ![i].sends = 1]
  /\ aop' = "request"
  /\ UNCHANGED <<refreshPromise, refreshPc, refreshAttempt, refreshWake,
                 refreshFailedAt, userData>>

\* refreshAccessToken: if (this.refreshPromise), a refresh is in progress.
refreshInProgress_Never == FALSE

refreshInProgress == refreshPromise

\* response.status === 401 && !isRetry: only the first try refreshes.
refreshesOn401_Always(isRetry) == TRUE

refreshesOn401(isRetry) == ~isRetry

\* The fetch of request i comes back.  A 401 on the first try goes to
\* refreshAccessToken: it waits for the refresh in progress or starts
\* performTokenRefresh, whose first fetch goes out at once.
ApiResponse(i, r) ==
  /\ apiRequests[i].pc = "fetch"
  /\ IF r = "401" /\ refreshesOn401(apiRequests[i].isRetry)
       THEN /\ apiRequests' = [apiRequests EXCEPT ![i].pc = "refresh"]
            /\ aop' = "unauthorized"
            /\ IF refreshInProgress
                 THEN UNCHANGED <<refreshPromise, refreshPc, refreshAttempt>>
                 ELSE /\ refreshPromise' = TRUE
                      /\ refreshPc' = "fetch"
                      /\ refreshAttempt' = 1
       ELSE /\ apiRequests' =
                 [apiRequests EXCEPT ![i].pc = "done",
                                     ![i].result = IF r = "ok" THEN "ok" ELSE "error"]
            /\ aop' = IF r = "ok" THEN "response" ELSE "error"
            /\ UNCHANGED <<refreshPromise, refreshPc, refreshAttempt>>
  /\ UNCHANGED <<refreshWake, refreshFailedAt, userData>>

\* performTokenRefresh returned: refreshAccessToken clears refreshPromise and
\* every request waiting for it goes on, re-sending itself when the refresh
\* succeeded and throwing on its 401 otherwise.
RefreshSettles(success) ==
  /\ refreshPromise' = FALSE
  /\ refreshPc' = "idle"
  /\ apiRequests' =
       [i \in DOMAIN apiRequests |->
          IF apiRequests[i].pc # "refresh" THEN apiRequests[i]
          ELSE IF success
            THEN [apiRequests[i] EXCEPT !.pc = "fetch", !.isRetry = TRUE,
                                        !.sends = apiRequests[i].sends + 1]
            ELSE [apiRequests[i] EXCEPT !.pc = "done", !.result = "error"]]

\* attempt < TOKEN_REFRESH.MAX_RETRIES
mayRetry(attempt) == attempt < MAX_RETRIES

\* The fetch of the refresh endpoint comes back.
RefreshResponse(r) ==
  /\ refreshPc = "fetch"
  /\ CASE r = "ok" ->
            /\ RefreshSettles(TRUE)
            /\ aop' = "refresh-ok"
            /\ UNCHANGED <<refreshAttempt, refreshWake, refreshFailedAt, userData>>
       [] r = "401" ->
            /\ RefreshSettles(FALSE)
            /\ userData' = FALSE
            /\ aop' = "refresh-401"
            /\ UNCHANGED <<refreshAttempt, refreshWake, refreshFailedAt>>
       [] OTHER ->
            /\ refreshFailedAt' = now
            /\ IF mayRetry(refreshAttempt)
                 THEN /\ refreshPc' = "sleep"
                      /\ refreshWake' = now + refreshDelay(refreshAttempt)
                      /\ aop' = "refresh-failed"
                      /\ UNCHANGED <<apiRequests, refreshPromise, refreshAttempt,
                                     userData>>
                 ELSE /\ RefreshSettles(FALSE)
                      /\ userData' = FALSE
                      /\ aop' = "refresh-exhausted"
                      /\ UNCHANGED <<refreshAttempt, refreshWake>>

\* sleep(delay) is over: the loop goes to its next attempt.
RefreshWakes ==
  /\ refreshPc = "sleep"
  /\ now >= refreshWake
  /\ refreshPc' = "fetch"
  /\ refreshAttempt' = refreshAttempt + 1
  /\ aop' = "refresh-retry"
  /\ UNCHANGED <<apiRequests, refreshPromise, refreshWake, refreshFailedAt, userData>>

(***************************************************************************)
(* DurationInput (components/timer/DurationInput.tsx)                      *)
(***************************************************************************)
\* Math.round of n / InputScale: the nearest integer, halves upwards.
Round(n) == (2 * n + InputScale) \div (2 * InputScale)

\* clampValue(val), val = n / InputScale
clampValue_NoUpper(n) == Max(inputMin, Round(n))

clampValue(n) == Max(inputMin, Min(inputMax, Round(n)))

\* What the input field can hold: nothing, text that is no number, or a
\* number n / InputScale.
EmptyText == [kind |-> "empty"]
InvalidText == [kind |-> "invalid"]
NumberText(n) == [kind |-> "number", scaled |-> n]

\* value.toString()
toString(v) == NumberText(v * InputScale)

InputConstructed ==
  /\ inputMin = MinDuration
  /\ inputMax = MinDuration
  /\ inputProp = MinDuration
  /\ inputValue = toString(MinDuration)
  /\ onChangeArg = None
  /\ iop = [kind |-> "init"]

\* The parent keeps what onChange gave it and passes it back as value; the
\* effect on [value] rewrites the field when value changed.
Emit(v, text) ==
  /\ onChangeArg' = v
  /\ inputProp' = v
  /\ inputValue' = IF v # inputProp THEN toString(v) ELSE text

NoEmit(text) ==
  /\ onChangeArg' = None
  /\ inputValue' = text
  /\ UNCHANGED inputProp

\* handleInputChange
handleInputChange(text) ==
  /\ iop' = [kind |-> "change", text |-> text]
  /\ CASE text = EmptyText -> Emit(inputMin, text)
       [] text = InvalidText -> NoEmit(text)
       [] OTHER ->
            IF text.scaled <= 0
              THEN Emit(inputMin, text)
              ELSE Emit(clampValue(text.scaled), text)
  /\ UNCHANGED <<inputMin, inputMax>>

\* handleIncrement
handleIncrement ==
  /\ iop' = [kind |-> "increment"]
  /\ IF inputProp < inputMax
       THEN Emit(inputProp + 1, inputValue)
       ELSE NoEmit(inputValue)
  /\ UNCHANGED <<inputMin, inputMax>>

\* handleDecrement
handleDecrement ==
  /\ iop' = [kind |-> "decrement"]
  /\ IF inputProp > inputMin
       THEN Emit(inputProp - 1, inputValue)
       ELSE NoEmit(inputValue)
  /\ UNCHANGED <<inputMin, inputMax>>

(***************************************************************************)
(* The engine on its own: the host calls its operations at any time, the   *)
(* clock advances, and the scheduled frame runs.                           *)
(***************************************************************************)
\* What the engine's own model leaves alone.
outsideCore == <<settingsVars, timerVars, legacyVars, apiVars, inputVars, journalVars>>

AdvanceClock ==
  /\ \E k \in 1..MaxJump :
       /\ now + k * Granule <= T0 + MaxElapsed
       /\ now' = now + k * Granule
  /\ UNCHANGED <<coreVars, outsideCore>>

UpdateTimer == CoreUpdateTimer /\ UNCHANGED <<now, outsideCore>>

StartTimer == \E d \in 1..MaxDuration : CoreStartTimer(d) /\ UNCHANGED <<now, outsideCore>>

PauseTimer == CorePauseTimer /\ UNCHANGED <<now, outsideCore>>

ResumeTimer == CoreResumeTimer /\ UNCHANGED <<now, outsideCore>>

StopTimer == CoreStopTimer /\ UNCHANGED <<now, outsideCore>>

Init ==
  /\ now = T0
  /\ CoreInit
  /\ SettingsInit
  /\ SessionInit
  /\ CoordinatorInit
  /\ LegacyConstructed
  /\ ApiConstructed
  /\ JournalConstructed
  /\ InputConstructed

Next ==
  \/ AdvanceClock
  \/ UpdateTimer
  \/ StartTimer
  \/ PauseTimer
  \/ ResumeTimer
  \/ StopTimer

Spec == Init /\ [][Next]_vars

\* The browser runs a scheduled animation frame, and the clock advances.
LiveSpec == Spec /\ WF_vars(UpdateTimer) /\ WF_vars(AdvanceClock)

(***************************************************************************)
(* Properties of the ticking engine.                                       *)
(***************************************************************************)
\* startTimer has taken effect at least once.
Started == lastTick # None

\* The run started last has not been paused or stopped.
Undisturbed == Started /\ ~interfered

\* C1 (safety part): in a run that is neither paused nor stopped, onComplete
\* has been invoked once exactly when a frame has computed remaining = 0 and not
\* before; from then on the engine is not running and no frame is scheduled, so
\* neither callback can fire again.
C1_Safety ==
  Undisturbed =>
    /\ completeCount = (IF timeRemainingRef = 0 THEN 1 ELSE 0)
    /\ completeCount = 1 => ~isRunningRef /\ ~animationFrame
    /\ completeCount = 0 => isRunningRef /\ animationFrame

\* C1 (liveness part): a run whose deadline lies within the explored clock, and
\* that is neither paused nor stopped, reaches its completion callback.
C1_Live ==
  (Undisturbed /\ startTimeRef + durationRef * MsPerSecond + Granule <= T0 + MaxElapsed)
    ~> (interfered \/ completeCount = 1)

\* C1: for every duration D > 0, after start(D) with no pause() or stop(), the
\* engine invokes the completion callback exactly once, at the first scheduled
\* frame on which remaining is 0, and then halts.
C1_CompletesExactlyOnce == []C1_Safety /\ C1_Live

\* C1 witness: an undisturbed run has completed.
C1_Witness == Undisturbed /\ completeCount = 1 /\ op = "frame"

\* C2: when a run started with start(D) completes without pause() or stop(), the
\* remaining values passed to the tick callback were strictly decreasing and the
\* last of them is exactly 0.
C2_TicksDecreaseToZero ==
  (Undisturbed /\ completeCount = 1) => (ticksStrict /\ lastTick = 0)

\* C3: the remaining value computed by the first frame after resume() equals the
\* remaining value at the moment of pause(), less the whole seconds run since the
\* resume, within one second: neither the time spent paused nor the time run
\* before the pause is counted twice.
C3_PauseResumePreserves ==
  firstAfterResume # None =>
    Abs(firstAfterResume - Max(0, remAtPause - (sinceResume \div MsPerSecond))) <= 1

\* C9: pause() when not running or already paused, resume() when not running or
\* not paused, and start(d) when running (paused included) fire no callback and
\* leave every ref of the engine unchanged.
C9_InvalidTransitionsAreNoops ==
  [][ ( \/ op' = "pause" /\ (~isRunningRef \/ isPausedRef)
        \/ op' = "resume" /\ (~isRunningRef \/ ~isPausedRef)
        \/ op' = "start" /\ isRunningRef )
      => UNCHANGED <<coreRefs, lastTick, tickedAt, ticksStrict, completeCount>> ]_vars

\* C9 witness: start(d) was called on a paused engine and returned at once.
C9_Witness == op = "start" /\ noop /\ isRunningRef /\ isPausedRef

(***************************************************************************)
(* The settings hook on its own: the page calls loadSettings and           *)
(* updateSettings at any time, requests settle in any order.               *)
(***************************************************************************)
outsideSettings == <<coreVars, timerVars, legacyVars, apiVars, inputVars, journalVars>>

SLoadSettings == \E f \in BOOLEAN : LoadSettings(f) /\ UNCHANGED outsideSettings

SUpdateSettings == \E p \in Partials : UpdateSettings(p) /\ UNCHANGED outsideSettings

SLoadResolves ==
  \E r \in requests, u \in ServerSettings :
    LoadSettingsResolves(r, u) /\ UNCHANGED outsideSettings

SLoadRejects == \E r \in requests : LoadSettingsRejects(r) /\ UNCHANGED outsideSettings

SUpdateResolves ==
  \E r \in requests, u \in ServerSettings :
    UpdateSettingsResolves(r, u) /\ UNCHANGED outsideSettings

SUpdateRejects == \E r \in requests : UpdateSettingsRejects(r) /\ UNCHANGED outsideSettings

SClock == SettingsClock /\ UNCHANGED outsideSettings

SettingsNext ==
  \/ SLoadSettings
  \/ SUpdateSettings
  \/ SLoadResolves
  \/ SLoadRejects
  \/ SUpdateResolves
  \/ SUpdateRejects
  \/ SClock

SettingsSpec == Init /\ [][SettingsNext]_vars

(***************************************************************************)
(* Properties of the settings cache.  sop names the operation that has     *)
(* just run, spre the state it started in, sreq its call or request.       *)
(***************************************************************************)
\* A successful load or update had filled the cache before the operation.
HadCache == spre.cache # NullSettings /\ spre.ts # Null

\* The operation that has just run issued a remote request, still in flight.
IssuedRequest == issued = spre.issued + 1 /\ sreq.id = issued /\ sreq \in requests

\* C5: a loadSettings() call less than 5 minutes after the cache was filled
\* issues no request and shows the cached value; a forced call always issues a
\* request; a non-forced call at 5 minutes or later issues one; and a load that
\* resolves stores the server's record with the time of its arrival.
C5_CacheLoad ==
  /\ sop \in {"load-cached", "load-request"} =>
       /\ (HadCache /\ ~sreq.force /\ now - spre.ts < CACHE_DURATION_MS) =>
            /\ issued = spre.issued
            /\ sreq \notin requests
            /\ settings = spre.cache
       /\ sreq.force => IssuedRequest
       /\ (HadCache /\ ~sreq.force /\ now - spre.ts >= CACHE_DURATION_MS) => IssuedRequest
  /\ sop = "load-ok" =>
       /\ settingsCache = sresp
       /\ cacheTimestamp = now
       /\ settings = sresp

\* C5 witness: a non-forced load exactly 5 minutes after the cache was filled,
\* which went to the server.
C5_Witness ==
  /\ sop = "load-request"
  /\ ~sreq.force
  /\ HadCache
  /\ now - spre.ts = CACHE_DURATION_MS

\* C6: when the remote call of updateSettings(partial) has failed, the visible
\* settings are those that were visible just before updateSettings was called,
\* the cache and its timestamp are as they were, and an error is shown.
C6_RollbackOnFailure ==
  sop = "update-failed" =>
    /\ settings = sreq.snapshot
    /\ settingsCache = spre.cache
    /\ cacheTimestamp = spre.ts
    /\ settingsError # "none"

\* C6 witness: a failed update whose optimistic value differed from the snapshot.
C6_Witness ==
  /\ sop = "update-failed"
  /\ Override(sreq.snapshot, sreq.partial) # sreq.snapshot
  /\ spre.settings # sreq.snapshot

\* C7: updateSettings(partial) with settings loaded shows the previous settings
\* overridden by partial while its request is still in flight; when the request
\* succeeds the visible settings and the cache are the server's record and the
\* cache timestamp is the time of its arrival.
C7_OptimisticThenServer ==
  /\ sop = "update-request" =>
       /\ settings = Override(spre.settings, sreq.partial)
       /\ sreq \in requests
  /\ sop = "update-ok" =>
       /\ settings = sresp
       /\ settingsCache = sresp
       /\ cacheTimestamp = now

\* C7 witness: an update resolved with a record that is not the optimistic one.
C7_Witness ==
  /\ sop = "update-ok"
  /\ sresp # Override(sreq.snapshot, sreq.partial)
  /\ spre.settings = Override(sreq.snapshot, sreq.partial)

\* C8: the settlement of a request that is no longer the one issued last (a later
\* load or update was issued while it was in flight) changes neither the visible
\* settings nor the cache.
C8_SupersededNeverApplied ==
  (sop \in {"load-ok", "update-ok", "update-failed"} /\ sreq.id < issued) =>
    /\ settings = spre.settings
    /\ settingsCache = spre.cache
    /\ cacheTimestamp = spre.ts

\* C29: the isLoading flag of the settings hook and of the session hook is
\* true whenever at least one of that hook's remote requests is in flight,
\* also when two or more requests overlap; it is false only when none of
\* the hook's requests remains outstanding.
C29_LoadingWhileInFlight ==
  /\ requests # {} => settingsIsLoading
  /\ calls # {} => sessionIsLoading

(***************************************************************************)
(* The rule for the next session type on its own: the session hook's type  *)
(* and number change through updateSessionType, and getNextSessionType is  *)
(* called in any state.                                                    *)
(***************************************************************************)
\* Settings with each cycle length the settings form accepts (min 2).
CycleSettings ==
  { SettingsRecord(1, c, FALSE, FALSE, TRUE, TRUE) : c \in 2..MaxCycle }

outsideSessionType ==
  <<now, coreVars, settingsVars, currentSession, totalSessions, sessionIsLoading,
    sessionError, coordState, viewState, chain, calls, callCount, timerClock,
    serverSessions, top, prevAtStart, legacyVars, apiVars, inputVars, journalVars>>

SessionTypeInit ==
  /\ now = T0
  /\ CoreInit
  /\ \/ SettingsInit
     \/ \E s \in CycleSettings : SettingsLoaded(s)
  /\ SessionInit
  /\ CoordinatorInit
  /\ LegacyConstructed
  /\ ApiConstructed
  /\ JournalConstructed
  /\ InputConstructed

TGetNextSessionType ==
  /\ GetNextSessionType
  /\ UNCHANGED <<sessionType, sessionNumber, outsideSessionType>>

TUpdateSessionType ==
  \E t \in SessionTypes :
    /\ (t = "work" /\ sessionType # "work") => sessionNumber < MaxSessionNumber
    /\ UpdateSessionType(t)
    /\ UNCHANGED <<nextType, outsideSessionType>>

SessionTypeNext == TGetNextSessionType \/ TUpdateSessionType

SessionTypeSpec == SessionTypeInit /\ [][SessionTypeNext]_vars

TimerSettings ==
  { SettingsRecord(1, 2, ab, aw, TRUE, TRUE) : ab \in BOOLEAN, aw \in BOOLEAN }

outsideTimer == <<settingsVars, legacyVars, apiVars, inputVars, journalVars>>

TimerInit ==
  /\ now = T0
  /\ CoreInit
  /\ \E s \in TimerSettings : SettingsLoaded(s)
  /\ SessionInit
  /\ CoordinatorInit
  /\ LegacyConstructed
  /\ ApiConstructed
  /\ JournalConstructed
  /\ InputConstructed

\* The clock: a granule, or a minute.
TClock ==
  /\ timerClock < MaxTimerClock
  /\ timerClock' = timerClock + 1
  /\ \E d \in {Granule, SecondsPerMinute * MsPerSecond} : now' = now + d
  /\ top' = "clock"
  /\ UNCHANGED <<coreVars, outsideTimer, sessionState, coordState, viewState,
                 chain, calls, callCount, serverSessions, nextType, prevAtStart>>

TFrame == CoordUpdateTimer /\ UNCHANGED <<now, outsideTimer>>

TStart == \E t \in SessionTypes : CoordStartTimer(t) /\ UNCHANGED <<now, outsideTimer>>

TPause == CoordPauseTimer /\ UNCHANGED <<now, outsideTimer>>

TResume == CoordResumeTimer /\ UNCHANGED <<now, outsideTimer>>

TSkip == CoordSkipTimer /\ UNCHANGED <<now, outsideTimer>>

TStop == CoordStopTimer /\ UNCHANGED <<now, outsideTimer>>

TCreateResolves == \E k \in calls : CreateSessionResolves(k) /\ UNCHANGED <<now, outsideTimer>>

TCreateRejects == \E k \in calls : CreateSessionRejects(k) /\ UNCHANGED <<now, outsideTimer>>

TCompleteResolves == \E k \in calls : CompleteSessionResolves(k) /\ UNCHANGED <<now, outsideTimer>>

TCompleteRejects == \E k \in calls : CompleteSessionRejects(k) /\ UNCHANGED <<now, outsideTimer>>

TUpdateResolves == \E k \in calls : UpdateSessionResolves(k) /\ UNCHANGED <<now, outsideTimer>>

TUpdateRejects == \E k \in calls : UpdateSessionRejects(k) /\ UNCHANGED <<now, outsideTimer>>

TimerNext ==
  \/ TClock
  \/ TFrame
  \/ TStart
  \/ TPause
  \/ TResume
  \/ TSkip
  \/ TStop
  \/ TCreateResolves
  \/ TCreateRejects
  \/ TCompleteResolves
  \/ TCompleteRejects
  \/ TUpdateResolves
  \/ TUpdateRejects

TimerSpec == TimerInit /\ [][TimerNext]_vars

\* Sessions the backend holds as active or paused.
LiveSessions ==
  { i \in DOMAIN serverSessions : serverSessions[i] \in {"active", "paused"} }

\* C10: at most one session is active or paused at any time: a new session
\* is requested only when the session hook holds no session or one that has
\* been completed, skipped or stopped.
C10_OneLiveSession ==
  /\ prevAtStart # "live"
  /\ Cardinality(LiveSessions) <= 1

\* C11: when the create call succeeds, the session the backend returned (its
\* newest, active, of the requested type) becomes the current session; when it
\* fails, an error message is stored, the failure is rethrown (the caller
\* goes no further: the engine and the displayed type are untouched) and the
\* current session is left as it was, so it stays none if it was none.
C11_CreateSession ==
  [][ /\ top' = "create-ok" =>
           /\ currentSession' # NullSession
           /\ Len(serverSessions') = Len(serverSessions) + 1
           /\ currentSession'.id = Len(serverSessions')
           /\ serverSessions'[currentSession'.id] = "active"
           /\ \E k \in calls \ calls' :
                k.kind = "create" /\ currentSession'.session_type = k.type
      /\ top' = "create-failed" =>
           /\ sessionError' # "none"
           /\ currentSession' = currentSession
           /\ coreRefs' = coreRefs
           /\ localSessionType' = localSessionType
           /\ serverSessions' = serverSessions ]_vars

\* A create call has failed with no current session: the error is stored and
\* the current session is none.
C11_Witness ==
  /\ top = "create-failed"
  /\ currentSession = NullSession
  /\ sessionError # "none"

\* The call that the step settles.
Settled(kinds) == { k \in calls \ calls' : k.kind \in kinds }

\* C12: completeSession(id) called for the session that is current: when the
\* completion call succeeds the current session is none and the call has
\* increased the total-sessions counter by exactly one; when it fails, the
\* failure changes neither and stores an error message.
C12_CompleteSession ==
  [][ \A k \in Settled({"complete", "skip"}) :
        (k.before.cs # NullSession /\ k.before.cs.id = k.id) =>
          /\ top' \in {"complete-ok", "skip-ok"} =>
               /\ currentSession' = NullSession
               /\ totalSessions' = totalSessions + 1
          /\ top' \in {"complete-failed", "skip-failed"} =>
               /\ currentSession' = currentSession
               /\ totalSessions' = totalSessions
               /\ sessionError' # "none" ]_vars

\* A completion call for the current session has succeeded.
C12_Witness ==
  /\ top \in {"complete-ok", "skip-ok"}
  /\ currentSession = NullSession
  /\ totalSessions = 1

\* C13: once a session has been completed, skipped or stopped through the
\* controls and the remote call has succeeded, the current session is none.
C13_ReleasedAfterSuccess ==
  [][ /\ top' \in {"complete-ok", "skip-ok"} => currentSession' = NullSession
      /\ \A k \in Settled({"update"}) :
           (k.updates = "stop" /\ top' = "update-ok") =>
             currentSession' = NullSession ]_vars

\* C26: skipTimer() on a current session issues exactly one completion call
\* for that session and increases totalSessions by exactly 1: when the call
\* skipTimer made resolves the counter grows by one, no further completion
\* call is made for the session, and the counter does not grow again for a
\* session the backend has already completed.
C26_SkipCompletesOnce ==
  [][ /\ top' = "skip-ok" =>
           \A k \in Settled({"skip"}) :
             /\ totalSessions' = totalSessions + 1
             /\ ~\E c \in calls' : c.kind \in {"complete", "skip"} /\ c.id = k.id
      /\ top' = "complete-ok" =>
           \A k \in Settled({"complete"}) :
             serverSessions[k.id] = "completed" => totalSessions' = totalSessions ]_vars

\* C27: in the refactored coordinator the session type the coordinator holds
\* (display, sounds, reminder) equals the session type the lifecycle manager
\* holds (read by getNextSessionType) after any sequence of start,
\* completion, skip and stop actions, once their requests have settled.
C27_SessionTypesAgree ==
  calls = {} => localSessionType = sessionType

(***************************************************************************)
(* The legacy hook with the page's controls: its mount effect has called   *)
(* loadSettings() and loadActiveSession(); the user presses the controls   *)
(* the page offers, the page is hidden and shown again, requests settle    *)
(* either way in any order, the clock advances and the interval fires.     *)
(***************************************************************************)
outsideLegacy == <<coreVars, settingsVars, timerVars, apiVars, inputVars, journalVars>>

\* The settings the backend returns to the legacy hook.
LegacyServerSettings == { SettingsRecord(1, 2, FALSE, FALSE, TRUE, TRUE) }

\* The sessions the backend holds when the page is opened.
LegacyServerAtMount ==
  { <<>>, <<ServerSession("active", "work", 1)>>, <<ServerSession("paused", "work", 1)>> }

\* remaining_minutes the backend reports for the active session.
RemainingMinutes == 1..MaxRemainingMinutes

LegacyInit ==
  /\ now = T0
  /\ CoreInit
  /\ SettingsInit
  /\ SessionInit
  /\ CoordinatorInit
  /\ timerState = InitialTimerState
  /\ legacySettings = NullSettings
  /\ legacyIsLoading = TRUE
  /\ legacyError = "none"
  /\ timerIntervalRef = NoInterval
  /\ intervalLast = 0
  /\ legacyStartTimeRef = Null
  /\ legacyPausedTimeRef = 0
  /\ ApiConstructed
  /\ JournalConstructed
  /\ InputConstructed
  /\ legacyServer \in LegacyServerAtMount
  /\ legacyCalls = { LegacyCall("settings", 0, "none", 0),
                     LegacyCall("active", 0, "none", 0) }
  /\ legacyCount = 0
  /\ legacyClock = 0
  /\ lop = "mount"

\* The clock: one interval period, or a minute.
LClock ==
  /\ legacyClock < MaxLegacyClock
  /\ legacyClock' = legacyClock + 1
  /\ \E d \in {LegacyIntervalMs, SecondsPerMinute * MsPerSecond} : now' = now + d
  /\ lop' = "clock"
  /\ UNCHANGED <<legacyState, legacyRefs, legacyCalls, legacyCount, legacyServer,
                 outsideLegacy>>

LegacyQuiet == UNCHANGED <<now, legacyClock, outsideLegacy>>

LInterval == LegacyInterval /\ LegacyQuiet

LVisible == LegacyLoadActiveSession /\ LegacyQuiet

LStart == \E t \in SessionTypes : LegacyStartTimer(t) /\ LegacyQuiet

LPause == LegacyPauseTimer /\ LegacyQuiet

LResume == LegacyResumeTimer /\ LegacyQuiet

LSkip == LegacySkipTimer /\ LegacyQuiet

LStop == LegacyStopTimer /\ LegacyQuiet

LSettingsResolves ==
  \E k \in legacyCalls : \E u \in LegacyServerSettings :
    LegacyLoadSettingsResolves(k, u) /\ LegacyQuiet

LSettingsRejects == \E k \in legacyCalls : LegacyLoadSettingsRejects(k) /\ LegacyQuiet

LActiveFound ==
  \E k \in legacyCalls : \E mins \in RemainingMinutes :
    LegacyActiveSessionFound(k, mins) /\ LegacyQuiet

LActiveNone == \E k \in legacyCalls : LegacyNoActiveSession(k) /\ LegacyQuiet

LActiveRejects == \E k \in legacyCalls : LegacyActiveSessionRejects(k) /\ LegacyQuiet

LStartResolves == \E k \in legacyCalls : LegacyStartResolves(k) /\ LegacyQuiet

LPauseResolves == \E k \in legacyCalls : LegacyPauseResolves(k) /\ LegacyQuiet

LResumeResolves == \E k \in legacyCalls : LegacyResumeResolves(k) /\ LegacyQuiet

LEndResolves == \E k \in legacyCalls : LegacyEndResolves(k) /\ LegacyQuiet

LControlRejects == \E k \in legacyCalls : LegacyControlRejects(k) /\ LegacyQuiet

LegacyNext ==
  \/ LClock
  \/ LInterval
  \/ LVisible
  \/ LStart
  \/ LPause
  \/ LResume
  \/ LSkip
  \/ LStop
  \/ LSettingsResolves
  \/ LSettingsRejects
  \/ LActiveFound
  \/ LActiveNone
  \/ LActiveRejects
  \/ LStartResolves
  \/ LPauseResolves
  \/ LResumeResolves
  \/ LEndResolves
  \/ LControlRejects

LegacySpec == LegacyInit /\ [][LegacyNext]_vars

\* C14: when the backend reports that there is no active session, the hook's
\* current session is none afterwards, the settlement stores no error
\* message and it starts no local countdown.
C14_NoActiveSession ==
  [][ lop' = "active-none" =>
        /\ timerState'.currentSession = NullSession
        /\ legacyError' = legacyError
        /\ timerIntervalRef' = timerIntervalRef ]_vars

\* C18: a control action (start, pause, resume, skip, stop) issues its remote
\* call first and the engine changes only when the call has succeeded: the
\* step that issues the request leaves the engine's running / paused state
\* and countdown as they were, and so does the failure of the call.
C18_RemoteCallFirst ==
  [][ (top' \in {"start", "pause", "resume", "skip", "stop",
                 "create-failed", "update-failed", "skip-failed", "complete-failed"})
        => /\ isRunningRef' = isRunningRef
           /\ isPausedRef' = isPausedRef
           /\ timeRemainingRef' = timeRemainingRef ]_vars

\* The control-action requests of the legacy hook that have not settled.
LegacyInFlight ==
  { k \in legacyCalls : k.kind \in {"start", "pause", "resume", "skip", "stop"} }

\* C19: at most one control-action request (start, pause, resume, skip, stop)
\* is in flight at any time, and while one is in flight every control button
\* is disabled.
C19_OneControlInFlight ==
  /\ Cardinality(LegacyInFlight) <= 1
  /\ LegacyInFlight # {} =>
       ~(LegacyStartOffered \/ LegacyPauseOffered \/ LegacyResumeOffered
           \/ LegacySkipOffered \/ LegacyStopOffered)

\* The lifecycle state the legacy hook shows: completing while a running
\* session's completion, skip or stop request is in flight.
LegacyPhase ==
  IF timerState.isPaused THEN "paused"
  ELSE IF ~timerState.isRunning THEN "idle"
  ELSE IF \E k \in legacyCalls : k.kind \in {"complete", "skip", "stop"}
    THEN "completing"
    ELSE "running"

\* The transitions of the lifecycle's state machine.
LifecycleTransitions ==
  { <<"idle", "running">>, <<"running", "paused">>, <<"paused", "running">>,
    <<"running", "completing">>, <<"completing", "idle">> }

\* C17: the lifecycle only takes the transitions idle -> running, running ->
\* paused, paused -> running and running -> completing -> idle: no control
\* action and no outcome of its remote call changes the state in another way.
\* (Steps that restore the backend's active session are not control actions.)
C17_LifecycleTransitions ==
  [][ (LegacyPhase' # LegacyPhase /\ lop' # "active-found")
        => <<LegacyPhase, LegacyPhase'>> \in LifecycleTransitions ]_vars

\* The completion requests of session id that have not settled.
CompletionsOf(id) == { k \in legacyCalls : k.kind = "complete" /\ k.id = id }

\* C25: on natural completion of a countdown the complete endpoint is called
\* at most once for the session, however long the call takes to return, and
\* once the countdown has reached 0 and the completion was requested no
\* further tick or completion handling happens for the session.
C25_CompletesOnce ==
  /\ [](\A id \in DOMAIN legacyServer : Cardinality(CompletionsOf(id)) <= 1)
  /\ [][ lop' \in {"interval", "complete"} =>
          (timerState.currentSession = NullSession
             \/ CompletionsOf(timerState.currentSession.id) = {}) ]_vars

\* C28: whenever the timer state reports isRunning = true a local countdown
\* is scheduled; in particular, once resumeTimer() has succeeded on a session
\* that loadActiveSession() restored as paused, the countdown runs again.
C28_RunningHasCountdown ==
  timerState.isRunning => timerIntervalRef # NoInterval

\* C20: the tick callback is invoked at most once per intervalMs: when a
\* frame invokes onTick, at least intervalMs have passed since the previous
\* onTick invocation of the same run, the one made by start() included, and
\* across a pause and resume.
C20_TickAtMostOncePerInterval ==
  [][ (op' = "frame" /\ FrameTicks) => now - tickedAt >= intervalMs ]_vars

\* C24: while the engine is running or paused, every remaining value it
\* computes (timeRemainingRef) or reports (the argument of onTick) lies in
\* [0, D], D being the duration passed to start(D), whatever pause() and
\* resume() calls were made.
C24_RemainingWithinDuration ==
  isRunningRef =>
    /\ timeRemainingRef \in 0..durationRef
    /\ lastTick # None => lastTick \in 0..durationRef

(***************************************************************************)
(* ApiService on its own: requests are made, fetches come back, the        *)
(* refresh sleeps and wakes.  Every fetch comes back and every sleep ends. *)
(***************************************************************************)
outsideApi == <<coreVars, settingsVars, timerVars, legacyVars, inputVars, journalVars>>

\* Time passes while the refresh sleeps.
AClock ==
  /\ refreshPc = "sleep"
  /\ now < refreshWake
  /\ now' = now + INITIAL_DELAY_MS
  /\ aop' = "clock"
  /\ UNCHANGED <<apiRequests, refreshPromise, refreshPc, refreshAttempt, refreshWake,
                 refreshFailedAt, userData, outsideApi>>

ARequest == \E i \in DOMAIN apiRequests : ApiRequest(i) /\ UNCHANGED <<now, outsideApi>>

AResponse ==
  \E i \in DOMAIN apiRequests : \E r \in FetchOutcomes :
    ApiResponse(i, r) /\ UNCHANGED <<now, outsideApi>>

ARefreshResponse ==
  \E r \in FetchOutcomes : RefreshResponse(r) /\ UNCHANGED <<now, outsideApi>>

ARefreshWakes == RefreshWakes /\ UNCHANGED <<now, outsideApi>>

ApiNext ==
  \/ AClock
  \/ ARequest
  \/ AResponse
  \/ ARefreshResponse
  \/ ARefreshWakes

ApiSpec == Init /\ [][ApiNext]_vars /\ WF_vars(ApiNext)

\* C15 (the refresh is bounded): performTokenRefresh never makes more than
\* MAX_RETRIES attempts, and it sleeps only after a failed attempt k < MAX_RETRIES,
\* for min(1000 * 2^(k-1), 30000) ms.
C15_Bounded ==
  /\ refreshAttempt <= MAX_RETRIES
  /\ refreshPc = "sleep" =>
       /\ refreshAttempt < MAX_RETRIES
       /\ refreshWake - refreshFailedAt =
            Min(INITIAL_DELAY_MS * Pow(BACKOFF_MULTIPLIER, refreshAttempt - 1),
                MAX_DELAY_MS)

\* C15 (the refresh stops at once): an ok or a 401 answer ends the refresh in
\* the same step without another attempt, and a further attempt is made only
\* when the sleep after the failed one is over.
C15_Stops ==
  [][ /\ aop' \in {"refresh-ok", "refresh-401"} =>
           (~refreshPromise' /\ refreshPc' = "idle" /\ refreshAttempt' = refreshAttempt)
      /\ aop' = "refresh-retry" =>
           (refreshAttempt' = refreshAttempt + 1 /\ refreshPc = "sleep"
              /\ now >= refreshWake)
      /\ refreshAttempt' # refreshAttempt =>
           aop' \in {"refresh-retry", "unauthorized"} ]_vars

\* C15 (the refresh terminates): a refresh in progress ends.
C15_Terminates == refreshPromise ~> ~refreshPromise

\* C15 as stated: only the token refresh retries, boundedly (at most
\* MAX_RETRIES attempts, waiting min(1000 * 2^(k-1), 30000) ms after the k-th
\* failed attempt for k < MAX_RETRIES, stopping at once on success or 401, always
\* terminating), and every other remote call fails on its first error
\* without being re-sent: no request() sends more than one fetch.
C15_OnlyRefreshRetries ==
  /\ []C15_Bounded
  /\ C15_Stops
  /\ C15_Terminates
  /\ [](\A i \in DOMAIN apiRequests : apiRequests[i].sends <= 1)

\* C15 amended: the token refresh is bounded as stated, and every other
\* remote call is sent at most twice: it is re-sent once, only after a 401
\* answer to its first fetch followed by a successful token refresh, and
\* fails at once on any other error and on any error of the re-sent fetch.
C15_RefreshRetriesBounded ==
  /\ []C15_Bounded
  /\ C15_Stops
  /\ C15_Terminates
  /\ [](\A i \in DOMAIN apiRequests :
          /\ apiRequests[i].sends <= 2
          /\ apiRequests[i].sends = 2 <=> apiRequests[i].isRetry)
  /\ [][ \A i \in DOMAIN apiRequests :
           /\ apiRequests'[i].sends # apiRequests[i].sends =>
                \/ aop' = "request" /\ apiRequests'[i].sends = 1
                \/ /\ aop' = "refresh-ok"
                   /\ apiRequests[i].pc = "refresh"
                   /\ apiRequests[i].sends = 1
                   /\ apiRequests'[i].sends = 2
           /\ (apiRequests[i].pc = "refresh" /\ aop' \in {"refresh-401", "refresh-exhausted"})
                => (apiRequests'[i].pc = "done" /\ apiRequests'[i].result = "error"
                      /\ apiRequests'[i].sends = apiRequests[i].sends)
           /\ (apiRequests[i].pc = "fetch" /\ apiRequests'[i].pc # "fetch"
                 /\ aop' = "error")
                => (apiRequests'[i].pc = "done" /\ apiRequests'[i].result = "error") ]_vars

\* The requests waiting in refreshAccessToken for the refresh in progress.
AwaitingRefresh == { i \in DOMAIN apiRequests : apiRequests[i].pc = "refresh" }

\* C23: the token refresh is single-flight.  A 401 received while a refresh
\* is in progress starts no second performTokenRefresh run (the run in
\* progress goes on undisturbed) and one received while none is in progress
\* starts one; every request that waits has a run in progress to wait for
\* and stays waiting until that run settles; when it settles all waiting
\* requests observe the same result (all are re-sent, or all fail); so a new
\* run starts only after the previous one has settled.
C23_SingleFlight ==
  /\ [](AwaitingRefresh # {} => refreshPromise)
  /\ [](refreshPromise <=> refreshPc # "idle")
  /\ [][ /\ (aop' = "unauthorized" /\ refreshPromise) =>
              UNCHANGED <<refreshPromise, refreshPc, refreshAttempt, refreshWake>>
         /\ (aop' = "unauthorized" /\ ~refreshPromise) =>
              (refreshPromise' /\ refreshPc' = "fetch" /\ refreshAttempt' = 1)
         /\ (refreshAttempt' = 1 /\ refreshAttempt # 1) => ~refreshPromise
         /\ \A i \in AwaitingRefresh :
              (refreshPromise' => apiRequests'[i] = apiRequests[i])
         /\ (refreshPromise /\ ~refreshPromise') =>
              \/ /\ aop' = "refresh-ok"
                 /\ \A i \in AwaitingRefresh :
                      apiRequests'[i].pc = "fetch" /\ apiRequests'[i].isRetry
              \/ /\ aop' \in {"refresh-401", "refresh-exhausted"}
                 /\ \A i \in AwaitingRefresh :
                      apiRequests'[i].pc = "done" /\ apiRequests'[i].result = "error" ]_vars

\* C23 witness: two requests were answered 401, waited for the same refresh
\* and are both re-sent when it succeeds at a later attempt.
C23_Witness ==
  /\ aop = "refresh-ok"
  /\ refreshAttempt > 1
  /\ Cardinality({ i \in DOMAIN apiRequests :
                     apiRequests[i].pc = "fetch" /\ apiRequests[i].isRetry }) >= 2

\* C30: request() always terminates with a result or an error.  A request
\* waits for a token refresh at most once, only after a 401 answer to its
\* first fetch, and is sent at most twice; when the refresh it waits for
\* fails it ends with an error without being sent again, and when the re-sent
\* fetch is answered (401 included) it ends there, with the result or an
\* error, without waiting for a refresh again; every request that was sent
\* eventually ends.
C30_RequestTerminates ==
  /\ \A i \in 1..MaxApiRequests :
       (apiRequests[i].pc # "idle") ~> (apiRequests[i].pc = "done")
  /\ [](\A i \in DOMAIN apiRequests :
          /\ apiRequests[i].sends <= 2
          /\ apiRequests[i].pc = "refresh" => apiRequests[i].sends = 1
          /\ apiRequests[i].pc = "done" <=> apiRequests[i].result \in {"ok", "error"})
  /\ [][ \A i \in DOMAIN apiRequests :
           /\ (apiRequests'[i].pc = "refresh" /\ apiRequests[i].pc # "refresh") =>
                (apiRequests[i].pc = "fetch" /\ ~apiRequests[i].isRetry)
           /\ (apiRequests[i].pc = "refresh" /\ apiRequests'[i].pc # "refresh") =>
                \/ apiRequests'[i].pc = "fetch" /\ apiRequests'[i].isRetry
                \/ /\ apiRequests'[i].pc = "done"
                   /\ apiRequests'[i].result = "error"
                   /\ ~refreshPromise'
           /\ (apiRequests[i].isRetry /\ apiRequests'[i] # apiRequests[i]) =>
                /\ apiRequests'[i].pc = "done"
                /\ apiRequests'[i].sends = apiRequests[i].sends
                /\ UNCHANGED <<refreshPromise, refreshPc, refreshAttempt>>
           /\ apiRequests[i].pc = "done" => apiRequests'[i] = apiRequests[i] ]_vars

\* C30 witness: a request answered 401 waited for a refresh that succeeded,
\* was sent again, and its second fetch failed: it ended with an error while
\* no refresh was started for it.
C30_Witness ==
  /\ aop = "error"
  /\ ~refreshPromise
  /\ \E i \in DOMAIN apiRequests :
       /\ apiRequests[i].isRetry
       /\ apiRequests[i].sends = 2
       /\ apiRequests[i].pc = "done"
       /\ apiRequests[i].result = "error"

\* C15 witness: the refresh succeeded at its last attempt, after both waits,
\* and a request that had been answered 401 was sent again.
C15_Witness ==
  /\ aop = "refresh-ok"
  /\ refreshAttempt = MAX_RETRIES
  /\ refreshWake - refreshFailedAt = INITIAL_DELAY_MS * BACKOFF_MULTIPLIER
  /\ \E i \in DOMAIN apiRequests : apiRequests[i].sends = 2

(***************************************************************************)
(* DurationInput on its own: the user types and presses the buttons.       *)
(***************************************************************************)
outsideInput == <<coreVars, settingsVars, timerVars, legacyVars, apiVars, journalVars>>

\* The (min, max) pairs the inputs are given.
InputRanges ==
  { r \in {MinDuration, MinSessions} \X (MinDuration..MaxInputMax) : r[1] < r[2] }

\* What the user can type.
TypedTexts ==
  {EmptyText, InvalidText} \cup
  { NumberText(n) : n \in (0 - InputScale)..((MaxInputMax + 1) * InputScale) }

InputInit ==
  /\ now = T0
  /\ CoreInit
  /\ SettingsInit
  /\ SessionInit
  /\ CoordinatorInit
  /\ LegacyConstructed
  /\ ApiConstructed
  /\ JournalConstructed
  /\ \E r \in InputRanges :
       /\ inputMin = r[1]
       /\ inputMax = r[2]
  /\ inputProp \in inputMin..inputMax
  /\ inputValue = toString(inputProp)
  /\ onChangeArg = None
  /\ iop = [kind |-> "init"]

IChange == \E text \in TypedTexts : handleInputChange(text) /\ UNCHANGED <<now, outsideInput>>

IIncrement == handleIncrement /\ UNCHANGED <<now, outsideInput>>

IDecrement == handleDecrement /\ UNCHANGED <<now, outsideInput>>

InputNext ==
  \/ IChange
  \/ IIncrement
  \/ IDecrement

InputSpec == InputInit /\ [][InputNext]_vars

\* The number nearest to n / InputScale, halves upwards, as an integer.
Nearest(n) == CHOOSE k \in (0 - 1)..(MaxInputMax + 2) :
                2 * InputScale * k - InputScale <= 2 * n
                  /\ 2 * n < 2 * InputScale * k + InputScale

MaxSequence == 7

outsideSequence ==
  <<coreVars, settingsVars, currentSession, totalSessions, sessionIsLoading,
    sessionError, coordState, viewState, chain, calls, callCount, timerClock,
    serverSessions, top, prevAtStart, legacyCount, legacyClock, apiVars, inputVars,
    effects>>

\* Both hooks after their settings request has settled (the legacy hook's
\* loadActiveSession found nothing), with the same record or none.
SequenceInit ==
  /\ now = T0
  /\ CoreInit
  /\ \/ SettingsInit
     \/ \E s \in CycleSettings : SettingsLoaded(s)
  /\ SessionInit
  /\ CoordinatorInit
  /\ timerState = InitialTimerState
  /\ legacySettings = settings
  /\ legacyIsLoading = FALSE
  /\ legacyError = "none"
  /\ timerIntervalRef = NoInterval
  /\ intervalLast = 0
  /\ legacyStartTimeRef = Null
  /\ legacyPausedTimeRef = 0
  /\ legacyCalls = {}
  /\ legacyCount = 0
  /\ legacyClock = 0
  /\ legacyServer = <<>>
  /\ lop = "active-none"
  /\ ApiConstructed
  /\ InputConstructed
  /\ JournalConstructed

\* const nextSessionType = timerSession.getNextSessionType();
\* timerSession.updateSessionType(nextSessionType);
NextSessionType ==
  LET nextSessionType ==
        getNextSessionType(sessionType, sessionNumber, sessionsUntilLongBreak)
  IN /\ GetNextSessionType
     /\ UpdateSessionType(nextSessionType)
     /\ typeSeq' = [typeSeq EXCEPT !.hook = Append(@, nextSessionType)]

\* startTimer() of the legacy hook, without a type, up to its await:
\* actualSessionType = sessionType || getNextSessionType().
LegacyStartNext ==
  LET actualSessionType ==
        legacyGetNextSessionType(timerState.sessionType, timerState.sessionNumber,
                                 legacySettings)
  IN /\ legacyIsLoading' = TRUE
     /\ legacyError' = "none"
     /\ legacyCalls' = legacyCalls \cup
          {LegacyCall("start", 0, actualSessionType, newSessionNumber(actualSessionType))}
     /\ lop' = "start"
     /\ UNCHANGED <<timerState, legacySettings, legacyRefs, legacyCount, legacyServer>>

\* What the sequences leave alone in a step of the legacy hook.
sequenceQuiet ==
  <<now, coreVars, settingsVars, timerVars, legacyCount, legacyClock, apiVars,
    inputVars, effects>>

QNextSessionType ==
  /\ Len(typeSeq.hook) < MaxSequence
  /\ NextSessionType
  /\ UNCHANGED <<now, legacyState, legacyRefs, legacyCalls, legacyServer, lop,
                 outsideSequence>>

QStartNext ==
  /\ legacyCanStartTimer
  /\ legacyCalls = {}
  /\ LegacyStartNext
  /\ UNCHANGED <<typeSeq, sequenceQuiet>>

QStartResolves ==
  \E k \in legacyCalls :
    /\ LegacyStartResolves(k)
    /\ typeSeq' = [typeSeq EXCEPT !.legacy = Append(@, k.type)]
    /\ UNCHANGED sequenceQuiet

\* The countdown's time passes.
QClock ==
  /\ timerIntervalRef # NoInterval
  /\ legacyRemaining > 0
  /\ now' = now + timerIntervalRef.initial * MsPerSecond
  /\ lop' = "clock"
  /\ UNCHANGED <<legacyState, legacyRefs, legacyCalls, legacyCount, legacyClock,
                 legacyServer, coreVars, settingsVars, timerVars, apiVars, inputVars,
                 journalVars>>

QInterval ==
  /\ LegacyInterval
  /\ UNCHANGED <<typeSeq, sequenceQuiet>>

QEndResolves ==
  \E k \in legacyCalls : LegacyEndResolves(k) /\ UNCHANGED <<typeSeq, sequenceQuiet>>

SequenceNext ==
  \/ QNextSessionType
  \/ QStartNext
  \/ QStartResolves
  \/ QClock
  \/ QInterval
  \/ QEndResolves

SequenceSpec == SequenceInit /\ [][SequenceNext]_vars

\* The work sessions among the first i of a sequence of session types.
WorksUpTo(s, i) == Cardinality({ j \in 1..i : s[j] = "work" })

\* Work and break alternate in s, and the break after the k-th work session
\* is long exactly when k is a multiple of the cycle length.
Alternates(s, cycle) ==
  \A i \in 2..Len(s) :
    /\ (s[i] = "work") # (s[i - 1] = "work")
    /\ s[i] # "work" => (s[i] = "long_break" <=> WorksUpTo(s, i) % cycle = 0)

\* The sessions the legacy hook has started, and the one startTimer() has
\* chosen and requested.
LegacyChosen ==
  typeSeq.legacy \o
    (IF \E k \in legacyCalls : k.kind = "start"
       THEN << (CHOOSE k \in legacyCalls : k.kind = "start").type >>
       ELSE << >>)

\* The cycle length the legacy hook is configured with.
LegacyCycle ==
  IF legacySettings = NullSettings
    THEN LegacyDefaultCycle
    ELSE legacySettings.sessions_until_long_break

\* C21: in a sequence of sessions whose types are each chosen by
\* getNextSessionType and applied (updateSessionType in the session hook,
\* startTimer in the legacy hook), work and break sessions alternate, and the
\* break after the k-th work session is long_break exactly when k is a
\* multiple of the configured cycle length and short_break otherwise.
C21_SessionsAlternate ==
  /\ Alternates(typeSeq.hook, sessionsUntilLongBreak)
  /\ Alternates(LegacyChosen, LegacyCycle)

(***************************************************************************)
(* Sounds and notifications: useTimerEffects and the coordinator's onTick  *)
(* are called with any argument; the legacy hook starts a session from the *)
(* page's controls, its countdown runs and its session completes.  Audio   *)
(* is available and the notification permission is granted.                *)
(***************************************************************************)
\* remaining === 5 * 60
ReminderSeconds == 300

\* The longest work_duration (minutes) in the effects model.
MaxWorkMinutes == 6

\* A sound played, or a notification shown.
Effect(kind, what, remaining) == [kind |-> kind, what |-> what, remaining |-> remaining]

\* settings?.enable_audio, settings?.enable_notifications
enableAudio == settings # NullSettings /\ settings.enable_audio
enableNotifications == settings # NullSettings /\ settings.enable_notifications

\* useTimerEffects.playSessionSound(sessionType): the sounds it plays.
playSessionSound(type) ==
  IF ~enableAudio
    THEN {}
    ELSE {Effect("sound", IF type = "work" THEN "bell" ELSE "chime", None)}

\* useTimerEffects.showSessionNotification(sessionType)
showSessionNotification(type) ==
  IF ~enableNotifications THEN {} ELSE {Effect("notification", type, None)}

\* useTimerEffects.showBreakReminder (handleBreakReminder); type is the session
\* type its caller read.
handleBreakReminder(remaining, type) ==
  IF ~enableNotifications THEN {} ELSE {Effect("reminder", type, remaining)}

\* useTimerEffects.showWorkReminder (handleWorkReminder)
handleWorkReminder(remaining) ==
  IF ~enableNotifications THEN {} ELSE {Effect("work-reminder", "work", remaining)}

\* The coordinator's onTick(remaining)
CoordOnTick(remaining) ==
  /\ timeRemaining' = remaining
  /\ effects' =
       (IF remaining = ReminderSeconds /\ localSessionType = "work"
             /\ enableNotifications
          THEN handleBreakReminder(remaining, localSessionType)
          ELSE {})

\* Legacy startTimer after createPomodoroSession resolved:
\* playSound('timer-start'); showTimerNotification(actualSessionType, false).
legacyStartEffects(k) ==
  {Effect("sound", "timer-start", None), Effect("notification", k.type, None)}

\* The legacy interval's callback: the reminder at 5 minutes of a work session.
legacyTickEffects ==
  IF legacyRemaining = ReminderSeconds /\ timerState.sessionType = "work"
    THEN {Effect("reminder", timerState.sessionType, legacyRemaining)}
    ELSE {}

\* Legacy completeTimer after completePomodoroSession resolved: the sound,
\* the notification and, 3 s later, the reminder of the next session.
legacyCompleteEffects ==
  LET completedSessionType == timerState.sessionType
      nextSessionType ==
        legacyGetNextSessionType(timerState.sessionType, timerState.sessionNumber,
                                 legacySettings)
  IN { Effect("sound", IF completedSessionType = "work"
                         THEN "work-complete" ELSE "break-complete", None),
       Effect("notification", completedSessionType, None),
       IF nextSessionType = "work"
         THEN Effect("work-reminder", "work", None)
         ELSE Effect("next-reminder", nextSessionType,
                     legacyGetSessionDuration(nextSessionType) * SecondsPerMinute) }

\* The settings of the effects model: every combination of the two flags.
EffectSettings ==
  { SettingsRecord(MaxWorkMinutes, 2, FALSE, FALSE, a, n) : a \in BOOLEAN, n \in BOOLEAN }

\* The remaining values onTick is called with.
TickValues == (ReminderSeconds - 1)..(ReminderSeconds + 1)

\* Both hooks with their settings loaded (or not), the coordinator holding
\* any session type.
EffectsInit ==
  /\ now = T0
  /\ CoreInit
  /\ \/ SettingsInit
     \/ \E s \in EffectSettings : SettingsLoaded(s)
  /\ SessionInit
  /\ timeRemaining = IF settings = NullSettings
                       THEN 0
                       ELSE getSessionDuration("work") * SecondsPerMinute
  /\ localSessionType \in SessionTypes
  /\ viewIsRunning = FALSE
  /\ viewIsPaused = FALSE
  /\ chain = NullClosure
  /\ calls = {}
  /\ callCount = 0
  /\ timerClock = 0
  /\ top = "init"
  /\ prevAtStart = "init"
  /\ timerState = InitialTimerState
  /\ legacySettings = settings
  /\ legacyIsLoading = FALSE
  /\ legacyError = "none"
  /\ timerIntervalRef = NoInterval
  /\ intervalLast = 0
  /\ legacyStartTimeRef = Null
  /\ legacyPausedTimeRef = 0
  /\ legacyCalls = {}
  /\ legacyCount = 0
  /\ legacyClock = 0
  /\ legacyServer = <<>>
  /\ lop = "active-none"
  /\ ApiConstructed
  /\ InputConstructed
  /\ JournalConstructed

\* What a step of the effects hook or of onTick leaves alone.
outsideEffects ==
  <<now, coreVars, settingsVars, sessionState, localSessionType, viewState, chain,
    calls, callCount, timerClock, serverSessions, top, nextType, prevAtStart,
    legacyVars, apiVars, inputVars, typeSeq>>

\* What a step of the legacy hook leaves alone in the effects model.
effectsQuiet ==
  <<now, coreVars, settingsVars, timerVars, legacyClock, apiVars, inputVars, typeSeq>>

EPlaySessionSound ==
  \E t \in SessionTypes :
    /\ effects' = playSessionSound(t)
    /\ UNCHANGED <<timeRemaining, outsideEffects>>

EShowSessionNotification ==
  \E t \in SessionTypes :
    /\ effects' = showSessionNotification(t)
    /\ UNCHANGED <<timeRemaining, outsideEffects>>

EReminder ==
  \E r \in TickValues :
    /\ effects' = handleWorkReminder(r)
    /\ UNCHANGED <<timeRemaining, outsideEffects>>

EOnTick ==
  \E r \in TickValues : CoordOnTick(r) /\ UNCHANGED outsideEffects

EStart ==
  \E t \in SessionTypes :
    LegacyStartTimer(t) /\ effects' = {} /\ UNCHANGED effectsQuiet

EStartResolves ==
  \E k \in legacyCalls :
    /\ LegacyStartResolves(k)
    /\ effects' = legacyStartEffects(k)
    /\ UNCHANGED effectsQuiet

\* A minute of the countdown passes.
EClock ==
  /\ timerIntervalRef # NoInterval
  /\ legacyRemaining > 0
  /\ now' = now + SecondsPerMinute * MsPerSecond
  /\ lop' = "clock"
  /\ effects' = {}
  /\ UNCHANGED <<legacyState, legacyRefs, legacyCalls, legacyCount, legacyClock,
                 legacyServer, coreVars, settingsVars, timerVars, apiVars, inputVars,
                 typeSeq>>

EInterval ==
  /\ LegacyInterval
  /\ effects' = legacyTickEffects
  /\ UNCHANGED effectsQuiet

EEndResolves ==
  \E k \in legacyCalls :
    /\ k.kind = "complete"
    /\ LegacyEndResolves(k)
    /\ effects' = legacyCompleteEffects
    /\ UNCHANGED effectsQuiet

EffectsNext ==
  \/ EPlaySessionSound
  \/ EShowSessionNotification
  \/ EReminder
  \/ EOnTick
  \/ EStart
  \/ EStartResolves
  \/ EClock
  \/ EInterval
  \/ EEndResolves

EffectsSpec == EffectsInit /\ [][EffectsNext]_vars

\* C22: effects are gated by the settings: no sound is played when
\* enable_audio is false, no session notification and no reminder is shown
\* when enable_notifications is false, and the 5-minutes-remaining reminder is
\* dispatched only on a tick whose remaining value is 300 while the session
\* type is work.
C22_EffectsGated ==
  \A e \in effects :
    /\ e.kind = "sound" => enableAudio
    /\ e.kind \in {"notification", "reminder", "work-reminder", "next-reminder"}
         => enableNotifications
    /\ e.kind = "reminder" => e.remaining = 300 /\ e.what = "work"

============================================================================
